---- MODULE Spec2Model ----
(***************************************************************************)
(* Hybrid signature DSTU 4145 + ML-DSA-44 (and the ECDSA P-256 variant).   *)
(*                                                                         *)
(* The arithmetic is the code's, bit array for bit array: a field element  *)
(* is the tuple of its m coefficients (the code's numpy array; source      *)
(* index i is tuple index i + 1).  The parameter sets are scaled down from *)
(* m = 163 / m = 257 to m = 5 so that the whole group can be enumerated:   *)
(* a pentanomial field with A = 1 (as M-163) and a trinomial field with    *)
(* A = 0 (as M-257), each with a base point of prime order n.              *)
(*                                                                         *)
(* Python's None is the empty tuple; a value computed from None (which     *)
(* raises TypeError / AttributeError in numpy) is the tuple Poison, and    *)
(* every operation hands Poison on, so that an operation "raises" exactly  *)
(* when its result is poisoned.                                            *)
(***************************************************************************)
EXTENDS Integers, Sequences, FiniteSets, TLC

None == <<>>
Poison == <<-1>>

IsBad(a) == a = None \/ a = Poison

(***************************************************************************)
(* field.py: GF2mField                                                     *)
(***************************************************************************)

\* The configured fields (scaled), by their key in the dictionary: 1 is the
\* pentanomial field (the code's key 163), 2 the trinomial (the code's key 257).
DSTU_FIELDS ==
    <<[key |-> 1, m |-> 5, basis_type |-> "pentanomial", k |-> 4, j |-> 3, l |-> 2],
      [key |-> 2, m |-> 5, basis_type |-> "trinomial", k |-> 2, j |-> 0, l |-> 0]>>

Bit == {0, 1}

\* A numpy array: the tuple of its entries, materialised.
Array(f) == f \o <<>>

\* A function tabulated once, entry by entry.
Table(f) == f @@ <<>>

\* All canonical elements of the field: the bit arrays of length m.
Elements(F) == {Array(a) : a \in [1..F.m -> Bit]}

RECURSIVE Pow2(_)
Pow2(e) == IF e = 0 THEN 1 ELSE 2 * Pow2(e - 1)

RECURSIVE bit_length(_)
bit_length(v) == IF v = 0 THEN 0 ELSE 1 + bit_length(v \div 2)

\* bit i of a non-negative integer
IntBit(v, i) == (v \div Pow2(i)) % 2

Min(a, b) == IF a < b THEN a ELSE b

element_from_int(F, value) ==
    Array([i \in 1..F.m |->
        IF i - 1 < Min(F.m, bit_length(value)) THEN IntBit(value, i - 1) ELSE 0])

RECURSIVE element_to_int_loop(_, _, _)
element_to_int_loop(F, element, i) ==
    IF i > F.m THEN 0
    ELSE (IF element[i] # 0 THEN Pow2(i - 1) ELSE 0)
         + element_to_int_loop(F, element, i + 1)

element_to_int(F, element) ==
    IF IsBad(element) THEN -1 ELSE element_to_int_loop(F, element, 1)

zero(F) == Array([i \in 1..F.m |-> 0])

one(F) == element_from_int(F, 1)

is_zero(F, a) == \A i \in 1..Len(a) : a[i] = 0

add(F, a, b) ==
    IF IsBad(a) \/ IsBad(b) THEN Poison
    ELSE Array([i \in 1..F.m |-> (a[i] + b[i]) % 2])

\* np.roll(temp_b, 1) followed by temp_b[0] = 0
ShiftLeft(F, t) == Array([i \in 1..F.m |-> IF i = 1 THEN 0 ELSE t[i - 1]])

\* the exponents folded back when the top bit is shifted out
ReductionTaps(F) ==
    IF F.basis_type = "trinomial" THEN {0, F.k} ELSE {0, F.l, F.j, F.k}

\* The reduction that folds the top bit back to the constant term only.
Reduce_constant_only(F, t) ==
    Array([i \in 1..F.m |-> IF i = 1 THEN 1 - t[i] ELSE t[i]])

Reduce(F, t) ==
    Array([i \in 1..F.m |-> IF (i - 1) \in ReductionTaps(F) THEN 1 - t[i] ELSE t[i]])

\* One pass of the loop of multiply is multiply_loop followed by
\* multiply_shift: the conditional add, then the shift with its reduction.
RECURSIVE multiply_loop(_, _, _, _, _)
multiply_shift(F, a, shifted, high_bit, result, i) ==
    multiply_loop(F, a, IF high_bit # 0 THEN Reduce(F, shifted) ELSE shifted, result, i + 1)

multiply_loop(F, a, temp_b, result, i) ==
    IF i > F.m THEN result
    ELSE multiply_shift(F, a, ShiftLeft(F, temp_b), temp_b[F.m],
                        IF a[i] # 0 THEN add(F, result, temp_b) ELSE result, i)

\* The products of every pair of elements of a field, each computed once by
\* the loop of multiply.
MultiplyTableOf(F) ==
    Table([a \in Elements(F) |->
        Table([b \in Elements(F) |-> multiply_loop(F, a, b, zero(F), 1)])])

MultiplyTable == Table([f \in DOMAIN DSTU_FIELDS |-> MultiplyTableOf(DSTU_FIELDS[f])])

multiply(F, a, b) ==
    IF IsBad(a) \/ IsBad(b) THEN Poison
    ELSE MultiplyTable[F.key][a][b]

square(F, a) == multiply(F, a, a)

RECURSIVE power_loop(_, _, _, _)
power_loop(F, result, base, n) ==
    IF n <= 0 THEN result
    ELSE power_loop(F,
                    IF n % 2 = 1 THEN multiply(F, result, base) ELSE result,
                    square(F, base),
                    n \div 2)

power(F, a, n) ==
    IF IsBad(a) THEN Poison
    ELSE IF n = 0 THEN one(F)
    ELSE IF n = 1 THEN a
    ELSE power_loop(F, one(F), a, n)

\* The inverse with the exponent 2^m - 1 in place of 2^m - 2.
inverse_exponent_full(F, a) ==
    IF a = Poison THEN Poison
    ELSE IF is_zero(F, a) THEN None
    ELSE power(F, a, Pow2(F.m) - 1)

\* Returns None (no exception) when a = 0.
inverse(F, a) ==
    IF a = Poison THEN Poison
    ELSE IF is_zero(F, a) THEN None
    ELSE power(F, a, Pow2(F.m) - 2)

\* One pass of the loop of trace: temp = square(temp) is trace_loop,
\* result = add(result, temp) is trace_add.
RECURSIVE trace_loop(_, _, _, _)
trace_add(F, result, temp, c) == trace_loop(F, add(F, result, temp), temp, c - 1)

trace_loop(F, result, temp, c) ==
    IF c = 0 THEN result ELSE trace_add(F, result, square(F, temp), c)

trace(F, a) ==
    IF IsBad(a) THEN -1
    ELSE trace_loop(F, a, a, F.m - 1)[1]

RECURSIVE half_trace_loop(_, _, _, _)
half_trace_add(F, result, temp, c) == half_trace_loop(F, add(F, result, temp), temp, c - 1)

half_trace_loop(F, result, temp, c) ==
    IF c = 0 THEN result ELSE half_trace_add(F, result, square(F, square(F, temp)), c)

half_trace(F, a) ==
    IF IsBad(a) THEN Poison
    ELSE half_trace_loop(F, a, a, (F.m - 1) \div 2)

\* solve_quadratic from v without the test of the trace of v.
solve_quadratic_v_untested(F, u, v) ==
    <<2, multiply(F, half_trace(F, v), u)>>

\* solve_quadratic for u # 0 and w # 0, from v = w / u^2
solve_quadratic_v(F, u, v) ==
    IF trace(F, v) # 0 THEN <<0, None>>
    ELSE <<2, multiply(F, half_trace(F, v), u)>>

\* solve_quadratic for u # 0 and w # 0, from u_inv = inverse(u^2)
solve_quadratic_inv(F, u, w, u_inv) ==
    IF u_inv = None THEN <<0, None>>
    ELSE solve_quadratic_v(F, u, multiply(F, w, u_inv))

\* (count, solution) of z^2 + u z + w = 0
solve_quadratic(F, u, w) ==
    IF IsBad(u) \/ IsBad(w) THEN <<-1, Poison>>
    ELSE IF is_zero(F, u) THEN
        IF is_zero(F, w) THEN <<2, zero(F)>>
        ELSE <<1, power(F, w, Pow2(F.m - 1))>>
    ELSE IF is_zero(F, w) THEN <<2, zero(F)>>
    ELSE solve_quadratic_inv(F, u, w, inverse(F, square(F, u)))

(***************************************************************************)
(* curve.py: Point, EllipticCurve                                          *)
(***************************************************************************)

Point(x, y) == [x |-> x, y |-> y, is_infinity |-> FALSE]

\* EllipticCurve.O
PointO == [x |-> None, y |-> None, is_infinity |-> TRUE]

\* a point one of whose coordinates was computed from None
PoisonPoint == [x |-> Poison, y |-> Poison, is_infinity |-> FALSE]

IsBadPoint(P) == ~P.is_infinity /\ (IsBad(P.x) \/ IsBad(P.y))

Point_eq(P, Q) ==
    IF P.is_infinity /\ Q.is_infinity THEN TRUE
    ELSE IF P.is_infinity \/ Q.is_infinity THEN FALSE
    ELSE P.x = Q.x /\ P.y = Q.y

\* right side x^3 + A x^2 + B of the curve equation, from x and x^2
curve_right_side(C, x, x_squared) ==
    add(C.field,
        IF C.A = 1 THEN add(C.field, multiply(C.field, x, x_squared), x_squared)
        ELSE multiply(C.field, x, x_squared),
        C.B)

is_on_curve(C, P) ==
    IF P.is_infinity THEN TRUE
    ELSE add(C.field, square(C.field, P.y), multiply(C.field, P.x, P.y))
         = curve_right_side(C, P.x, square(C.field, P.x))

\* the sum x0 plus A, the last step of xR in add and double
curve_add_A(C, x0) == IF C.A = 1 THEN add(C.field, x0, one(C.field)) ELSE x0

\* double, from lambda and xR: yR = xP^2 + lambda xR + xR
curve_double_point(C, P, lambda, xR) ==
    Point(xR, add(C.field,
                  add(C.field, square(C.field, P.x), multiply(C.field, lambda, xR)),
                  xR))

\* double, from lambda: xR = lambda^2 + lambda + A
curve_double_slope(C, P, lambda) ==
    curve_double_point(C, P, lambda,
                       curve_add_A(C, add(C.field, square(C.field, lambda), lambda)))

\* double, from xP_inv: lambda = xP + yP / xP
curve_double_inv(C, P, xP_inv) ==
    IF xP_inv = None THEN PointO
    ELSE curve_double_slope(C, P, add(C.field, P.x, multiply(C.field, P.y, xP_inv)))

\* The doubling with xR = lambda^2 + lambda, the coefficient A left out.
curve_double_without_A(C, P) ==
    IF P.is_infinity THEN PointO
    ELSE IF IsBadPoint(P) THEN PoisonPoint
    ELSE IF is_zero(C.field, P.x) THEN PointO
    ELSE LET lambda == add(C.field, P.x, multiply(C.field, P.y, inverse(C.field, P.x)))
         IN  curve_double_point(C, P, lambda, add(C.field, square(C.field, lambda), lambda))

curve_double(C, P) ==
    IF P.is_infinity THEN PointO
    ELSE IF IsBadPoint(P) THEN PoisonPoint
    ELSE IF is_zero(C.field, P.x) THEN PointO
    ELSE curve_double_inv(C, P, inverse(C.field, P.x))

\* add, from lambda and xR: yR = lambda (xP + xR) + xR + yP
curve_add_point(C, P, lambda, xR) ==
    Point(xR, add(C.field,
                  add(C.field, multiply(C.field, lambda, add(C.field, P.x, xR)), xR),
                  P.y))

\* add, from lambda: xR = lambda^2 + lambda + xP + xQ + A
curve_add_slope(C, P, Q, lambda) ==
    curve_add_point(C, P, lambda,
        curve_add_A(C, add(C.field,
                           add(C.field, add(C.field, square(C.field, lambda), lambda), P.x),
                           Q.x)))

\* add, from denominator_inv: lambda = (yP + yQ) / (xP + xQ)
curve_add_inv(C, P, Q, denominator_inv) ==
    IF denominator_inv = None THEN PointO
    ELSE curve_add_slope(C, P, Q, multiply(C.field, add(C.field, P.y, Q.y), denominator_inv))

\* The addition without the case P = -Q: equal x always doubles.
curve_add_without_opposite(C, P, Q) ==
    IF P.is_infinity THEN Q
    ELSE IF Q.is_infinity THEN P
    ELSE IF IsBadPoint(P) \/ IsBadPoint(Q) THEN PoisonPoint
    ELSE IF P.x = Q.x THEN curve_double(C, P)
    ELSE curve_add_inv(C, P, Q, inverse(C.field, add(C.field, P.x, Q.x)))

curve_add(C, P, Q) ==
    IF P.is_infinity THEN Q
    ELSE IF Q.is_infinity THEN P
    ELSE IF IsBadPoint(P) \/ IsBadPoint(Q) THEN PoisonPoint
    ELSE IF P.x = Q.x THEN
        (IF P.y = Q.y THEN curve_double(C, P) ELSE PointO)
    ELSE curve_add_inv(C, P, Q, inverse(C.field, add(C.field, P.x, Q.x)))

RECURSIVE curve_multiply_loop(_, _, _, _)
curve_multiply_loop(C, k, result, addend) ==
    IF k <= 0 THEN result
    ELSE curve_multiply_loop(C, k \div 2,
                             IF k % 2 = 1 THEN curve_add(C, result, addend) ELSE result,
                             curve_double(C, addend))

\* The multiplication whose loop starts at the second bit of k.
curve_multiply_from_second_bit(C, k, P) ==
    IF k = 0 \/ P.is_infinity THEN PointO
    ELSE IF k = 1 THEN P
    ELSE curve_multiply_loop(C, k \div 2, PointO, curve_double(C, P))

curve_multiply(C, k, P) ==
    IF k = 0 \/ P.is_infinity THEN PointO
    ELSE IF k = 1 THEN P
    ELSE curve_multiply_loop(C, k, PointO, P)

\* compressed[0] = trace_bit on a copy of P.x
SetBit0(a, b) == Array([i \in 1..Len(a) |-> IF i = 1 THEN b ELSE a[i]])

compress_point(C, P) ==
    IF P.is_infinity THEN zero(C.field)
    ELSE IF is_zero(C.field, P.x) THEN zero(C.field)
    ELSE SetBit0(P.x, trace(C.field, multiply(C.field, P.y, inverse(C.field, P.x))))

\* [ok |-> TRUE, value |-> point] or [ok |-> FALSE, error |-> exception type]
Return(v) == [ok |-> TRUE, value |-> v, error |-> "none"]

Raise(e) == [ok |-> FALSE, value |-> None, error |-> e]

\* decompress_point, from z: yP = z xP, or (z + 1) xP where Tr(z) # k
decompress_point_y(C, k, xP, z) ==
    Return(Point(xP, IF trace(C.field, z) = k THEN multiply(C.field, z, xP)
                     ELSE multiply(C.field, add(C.field, z, one(C.field)), xP)))

\* decompress_point, from (count, z) of solve_quadratic(1, v)
decompress_point_solution(C, k, xP, sol) ==
    IF sol[1] = 0 THEN Raise("ValueError") ELSE decompress_point_y(C, k, xP, sol[2])

\* decompress_point, from v = w / xP^2, which multiply cannot compute when
\* inverse returned None
decompress_point_v(C, k, xP, v) ==
    IF v = Poison THEN Raise("AttributeError")
    ELSE decompress_point_solution(C, k, xP, solve_quadratic(C.field, one(C.field), v))

\* decompress_point, from xP^2: w = xP^3 + A xP^2 + B, v = w / xP^2
decompress_point_w(C, k, xP, xP_squared) ==
    decompress_point_v(C, k, xP,
        multiply(C.field, curve_right_side(C, xP, xP_squared),
                 inverse(C.field, xP_squared)))

\* decompress_point, from xP with its bit 0 cleared: the bit is set where
\* the trace is not A
decompress_point_x(C, k, x0) ==
    IF trace(C.field, x0) # C.A
    THEN decompress_point_w(C, k, SetBit0(x0, 1), square(C.field, SetBit0(x0, 1)))
    ELSE decompress_point_w(C, k, x0, square(C.field, x0))

decompress_point(C, compressed) ==
    IF is_zero(C.field, compressed)
    THEN Return(Point(zero(C.field), power(C.field, C.B, Pow2(C.field.m - 1))))
    ELSE decompress_point_x(C, compressed[1], SetBit0(compressed, 0))

\* field.py: element_from_bytes / element_to_bytes (bytes are 0..255, most
\* significant bit first, as np.unpackbits / np.packbits have them)
RECURSIVE unpackbits(_)
unpackbits(data) ==
    IF data = <<>> THEN <<>>
    ELSE [i \in 1..8 |-> IntBit(Head(data), 8 - i)] \o unpackbits(Tail(data))

RECURSIVE packbits(_)
packbits(bits) ==
    IF bits = <<>> THEN <<>>
    ELSE <<128 * bits[1] + 64 * bits[2] + 32 * bits[3] + 16 * bits[4]
           + 8 * bits[5] + 4 * bits[6] + 2 * bits[7] + bits[8]>>
         \o packbits(SubSeq(bits, 9, Len(bits)))

Reverse(seq) == Array([i \in 1..Len(seq) |-> seq[Len(seq) + 1 - i]])

Zeros(c) == Array([i \in 1..c |-> 0])

element_from_bytes(F, data) ==
    LET bits == unpackbits(data)
        cut == IF Len(bits) > F.m THEN SubSeq(bits, 1, F.m)
               ELSE IF Len(bits) < F.m THEN bits \o Zeros(F.m - Len(bits))
               ELSE bits
    IN  Reverse(cut)

element_to_bytes(F, element) ==
    LET padded_len == ((F.m + 7) \div 8) * 8
    IN  packbits(Zeros(padded_len - F.m) \o Reverse(element))

(***************************************************************************)
(* curve.py: the domain parameters; signature.py: DSTU4145                 *)
(***************************************************************************)

\* (field, curve, base_point, n): pentanomial field, A = 1, given base point
get_dstu_curve_163 ==
    LET field == DSTU_FIELDS[1]
        curve == [field |-> field, A |-> 1, B |-> element_from_int(field, 6)]
    IN  [field |-> field, curve |-> curve,
         P |-> Point(element_from_int(field, 7), element_from_int(field, 8)),
         n |-> 17]

\* (field, curve, base_point, n): trinomial field, A = 0; the base point
\* is the one compute_base_point(n, 1, 257) returns
get_dstu_curve_257 ==
    LET field == DSTU_FIELDS[2]
        curve == [field |-> field, A |-> 0, B |-> element_from_int(field, 1)]
    IN  [field |-> field, curve |-> curve,
         P |-> Point(element_from_int(field, 2), element_from_int(field, 31)),
         n |-> 11]

create_dstu4145_163 == get_dstu_curve_163

create_dstu4145_257 == get_dstu_curve_257

\* The scalar multiples k * Q, 0 <= k <= n, of every point Q of the curve of
\* a parameter set, each computed once by multiply; scalar_multiply is
\* multiply for these arguments, read from the table.
CurvePoints(D) ==
    {PointO} \cup
    {Q \in {Point(x, y) : x \in Elements(D.field), y \in Elements(D.field)} :
        is_on_curve(D.curve, Q)}

DSTU_INSTANCES == <<create_dstu4145_163, create_dstu4145_257>>

MultiplyPointTableOf(D) ==
    Table([k \in 0..D.n |->
        Table([Q \in CurvePoints(D) |-> curve_multiply(D.curve, k, Q)])])

MultiplyPointTable == Table([i \in DOMAIN DSTU_INSTANCES |-> MultiplyPointTableOf(DSTU_INSTANCES[i])])

scalar_multiply(D, k, Q) == MultiplyPointTable[D.field.key][k][Q]

\* The Kupyna-256 digest is an external primitive: a fixed function of the
\* message, here one byte long (longer than the m bits the field keeps).
RECURSIVE ByteSum(_)
ByteSum(data) == IF data = <<>> THEN 0 ELSE Head(data) + ByteSum(Tail(data))

hash_data(data) == <<(7 + 59 * ByteSum(data) + 101 * Len(data)) % 256>>

hash_to_field_element(D, h) ==
    LET element == element_from_bytes(D.field, h)
    IN  IF is_zero(D.field, element) THEN one(D.field) ELSE element

\* The conversion without its truncation to L(n) - 1 bits: the fault C4
\* detects.
field_element_to_int_untruncated(D, x) ==
    IF IsBad(x) THEN -1 ELSE element_to_int(D.field, x)

field_element_to_int(D, x) ==
    IF IsBad(x) THEN -1
    ELSE element_to_int(D.field, x) % Pow2(bit_length(D.n) - 1)

\* Step 13 left out, s = 0 returned: the fault C29 detects.
sign_attempt_s_unchecked(D, private_key, e, r, s) ==
    <<r, s>>

\* One pass of the loop of sign for the draw e: the pair (r, s), or None
\* where the code says continue.  sign_attempt_s is steps 12-13 from r,
\* sign_attempt_R steps 9-11 from R = eP.
sign_attempt_s(D, private_key, e, r, s) ==
    IF s = 0 THEN None ELSE <<r, s>>

\* Step 12 with the sign of d r reversed, s = (e + d r) mod n: the fault C3
\* detects.
sign_attempt_r_plus(D, private_key, e, r) ==
    IF r = 0 THEN None
    ELSE sign_attempt_s(D, private_key, e, r, (e + private_key * r) % D.n)

sign_attempt_r(D, private_key, e, r) ==
    IF r = 0 THEN None
    ELSE sign_attempt_s(D, private_key, e, r, (e - private_key * r) % D.n)

sign_attempt_R(D, h, private_key, e, R) ==
    IF R.is_infinity THEN None
    ELSE sign_attempt_r(D, private_key, e,
                        field_element_to_int(D, multiply(D.field, h, R.x)))

sign_attempt(D, h, private_key, e) ==
    IF e = 0 THEN None
    ELSE sign_attempt_R(D, h, private_key, e, scalar_multiply(D, e, D.P))

\* verify, steps 5-7 from R = sP + rQ; an R with a coordinate computed from
\* None cannot be multiplied
verify_R(D, h, r, R) ==
    IF R.is_infinity THEN Return(FALSE)
    ELSE IF IsBadPoint(R) THEN Raise("TypeError")
    ELSE Return(field_element_to_int(D, multiply(D.field, h, R.x)) = r)

\* verify without its test of Q against the point at infinity: the fault C5
\* detects.
verify_rs_no_infinity_test(D, data, r, s, public_key) ==
    IF ~(0 < r /\ r < D.n) THEN Return(FALSE)
    ELSE IF ~(0 < s /\ s < D.n) THEN Return(FALSE)
    ELSE IF ~is_on_curve(D.curve, public_key) THEN Return(FALSE)
    ELSE verify_R(D, hash_to_field_element(D, hash_data(data)), r,
                  curve_add(D.curve, scalar_multiply(D, s, D.P),
                            scalar_multiply(D, r, public_key)))

verify_rs(D, data, r, s, public_key) ==
    IF ~(0 < r /\ r < D.n) THEN Return(FALSE)
    ELSE IF ~(0 < s /\ s < D.n) THEN Return(FALSE)
    ELSE IF ~is_on_curve(D.curve, public_key) THEN Return(FALSE)
    ELSE IF public_key.is_infinity THEN Return(FALSE)
    ELSE verify_R(D, hash_to_field_element(D, hash_data(data)), r,
                  curve_add(D.curve, scalar_multiply(D, s, D.P),
                            scalar_multiply(D, r, public_key)))

verify(D, data, signature, public_key) ==
    verify_rs(D, data, signature[1], signature[2], public_key)

\* int.to_bytes(length, 'big') and int.from_bytes(.., 'big')
RECURSIVE Pow256(_)
Pow256(e) == IF e = 0 THEN 1 ELSE 256 * Pow256(e - 1)

\* The bytes least significant first: the fault C10 detects.
to_bytes_little(v, length) ==
    IF v < 0 \/ v >= Pow256(length) THEN Raise("OverflowError")
    ELSE Return(Array([i \in 1..length |-> (v \div Pow256(i - 1)) % 256]))

to_bytes(v, length) ==
    IF v < 0 \/ v >= Pow256(length) THEN Raise("OverflowError")
    ELSE Return(Array([i \in 1..length |-> (v \div Pow256(length - i)) % 256]))

RECURSIVE from_bytes(_)
from_bytes(b) ==
    IF b = <<>> THEN 0
    ELSE 256 * from_bytes(SubSeq(b, 1, Len(b) - 1)) + b[Len(b)]

export_signature(D, signature) ==
    LET n_bytes == (bit_length(D.n) + 7) \div 8
        r_bytes == to_bytes(signature[1], n_bytes)
        s_bytes == to_bytes(signature[2], n_bytes)
    IN  IF ~r_bytes.ok THEN r_bytes
        ELSE IF ~s_bytes.ok THEN s_bytes
        ELSE Return(r_bytes.value \o s_bytes.value)

import_signature(D, signature_bytes) ==
    LET n_bytes == (bit_length(D.n) + 7) \div 8
    IN  IF Len(signature_bytes) # 2 * n_bytes THEN Raise("ValueError")
        ELSE Return(<<from_bytes(SubSeq(signature_bytes, 1, n_bytes)),
                      from_bytes(SubSeq(signature_bytes, n_bytes + 1, 2 * n_bytes))>>)

\* The coordinates in the order y, x: the fault C12 detects.
export_public_key_y_first(D, public_key) ==
    IF public_key.is_infinity THEN Raise("ValueError")
    ELSE Return(to_bytes(element_to_int(D.field, public_key.y), (D.field.m + 7) \div 8).value
                \o to_bytes(element_to_int(D.field, public_key.x), (D.field.m + 7) \div 8).value)

export_public_key(D, public_key) ==
    IF public_key.is_infinity THEN Raise("ValueError")
    ELSE LET byte_len == (D.field.m + 7) \div 8
             x_bytes == to_bytes(element_to_int(D.field, public_key.x), byte_len)
             y_bytes == to_bytes(element_to_int(D.field, public_key.y), byte_len)
         IN  IF ~x_bytes.ok THEN x_bytes
             ELSE IF ~y_bytes.ok THEN y_bytes
             ELSE Return(x_bytes.value \o y_bytes.value)

import_public_key(D, key_bytes) ==
    LET byte_len == (D.field.m + 7) \div 8
    IN  IF Len(key_bytes) # 2 * byte_len THEN Raise("ValueError")
        ELSE LET x == element_from_int(D.field, from_bytes(SubSeq(key_bytes, 1, byte_len)))
                 y == element_from_int(D.field,
                                       from_bytes(SubSeq(key_bytes, byte_len + 1, 2 * byte_len)))
                 point == Point(x, y)
             IN  IF ~is_on_curve(D.curve, point) THEN Raise("ValueError")
                 ELSE Return(point)

(***************************************************************************)
(* mldsa/wrapper.py: MLDSA44 over the external backend                     *)
(***************************************************************************)

\* The backend (liboqs) is external: a key pair is a pair of opaque byte
\* strings grown from a seed, a signature a byte string fixed by the message
\* and the private key, and verification accepts exactly the signatures made
\* for the message under the matching private key, unless the backend fails.
oqs_generate_keypair(seed) == [private_key |-> <<20 + seed>>, public_key |-> <<10 + seed>>]

oqs_sign(data, private_key) ==
    <<(1 + ByteSum(data) + 3 * Len(data)) % 256, private_key[1]>>

oqs_verify(data, signature, public_key, fault) ==
    IF fault THEN Raise("RuntimeError")
    ELSE Return(public_key # <<>> /\ signature = oqs_sign(data, <<public_key[1] + 10>>))

\* The wrapper without its try: an exception of the backend leaves it.  The
\* fault C2 detects.
MLDSA44_verify_raising(data, signature, public_key, fault) ==
    oqs_verify(data, signature, public_key, fault)

\* try: return verifier.verify(..)  except Exception: return False
MLDSA44_verify(data, signature, public_key, fault) ==
    LET is_valid == oqs_verify(data, signature, public_key, fault)
    IN  IF is_valid.ok THEN Return(is_valid.value) ELSE Return(FALSE)

\* oqs.Signature(ALGORITHM): the verifier, unless its creation fails
oqs_Signature(create_fault) ==
    IF create_fault THEN Raise("RuntimeError") ELSE Return("verifier")

\* The wrapper with the creation of the verifier outside its try.
MLDSA44_verify_creation_outside(verifier, data, signature, public_key, fault) ==
    IF ~verifier.ok THEN verifier
    ELSE MLDSA44_verify(data, signature, public_key, fault)

\* MLDSA44.verify from what oqs.Signature returned: the creation is inside
\* the try as well
MLDSA44_verify_created(verifier, data, signature, public_key, fault) ==
    IF ~verifier.ok THEN Return(FALSE)
    ELSE MLDSA44_verify(data, signature, public_key, fault)

(***************************************************************************)
(* Text: str as the tuple of its characters                                *)
(***************************************************************************)

HexDigits == <<"0", "1", "2", "3", "4", "5", "6", "7",
               "8", "9", "a", "b", "c", "d", "e", "f">>

RECURSIVE HexOfNat(_)
HexOfNat(v) ==
    IF v < 16 THEN <<HexDigits[v + 1]>>
    ELSE HexOfNat(v \div 16) \o <<HexDigits[(v % 16) + 1]>>

\* hex(v)
hex(v) == IF v < 0 THEN <<"-", "0", "x">> \o HexOfNat(-v)
          ELSE <<"0", "x">> \o HexOfNat(v)

IsHexDigit(c) == \E i \in 1..16 : HexDigits[i] = c

HexValue(c) == (CHOOSE i \in 1..16 : HexDigits[i] = c) - 1

RECURSIVE HexToNat(_)
HexToNat(t) ==
    IF t = <<>> THEN 0
    ELSE 16 * HexToNat(SubSeq(t, 1, Len(t) - 1)) + HexValue(t[Len(t)])

\* int(t, 16): an optional sign, an optional 0x, then hexadecimal digits
int16_digits(negative, digits) ==
    IF digits = <<>> \/ \E i \in 1..Len(digits) : ~IsHexDigit(digits[i])
    THEN Raise("ValueError")
    ELSE Return(IF negative THEN -HexToNat(digits) ELSE HexToNat(digits))

int16_prefix(negative, t) ==
    int16_digits(negative,
                 IF Len(t) >= 2 /\ t[1] = "0" /\ t[2] = "x" THEN SubSeq(t, 3, Len(t)) ELSE t)

int16(t) ==
    int16_prefix(t # <<>> /\ t[1] = "-",
                 IF t # <<>> /\ t[1] \in {"-", "+"} THEN Tail(t) ELSE t)

\* bytes.hex() and bytes.fromhex()
RECURSIVE bytes_hex(_)
bytes_hex(b) ==
    IF b = <<>> THEN <<>>
    ELSE <<HexDigits[(Head(b) \div 16) + 1], HexDigits[(Head(b) % 16) + 1]>>
         \o bytes_hex(Tail(b))

RECURSIVE fromhex_loop(_)
fromhex_loop(t) ==
    IF t = <<>> THEN <<>>
    ELSE <<16 * HexValue(t[1]) + HexValue(t[2])>> \o fromhex_loop(SubSeq(t, 3, Len(t)))

bytes_fromhex(t) ==
    IF Len(t) % 2 # 0 \/ \E i \in 1..Len(t) : ~IsHexDigit(t[i])
    THEN Raise("ValueError")
    ELSE Return(fromhex_loop(t))

B64Alphabet ==
    <<"A", "B", "C", "D", "E", "F", "G", "H", "I", "J", "K", "L", "M",
      "N", "O", "P", "Q", "R", "S", "T", "U", "V", "W", "X", "Y", "Z",
      "a", "b", "c", "d", "e", "f", "g", "h", "i", "j", "k", "l", "m",
      "n", "o", "p", "q", "r", "s", "t", "u", "v", "w", "x", "y", "z",
      "0", "1", "2", "3", "4", "5", "6", "7", "8", "9", "+", "/">>

B64Char(v) == B64Alphabet[v + 1]

IsB64Char(c) == \E i \in 1..64 : B64Alphabet[i] = c

B64Value(c) == (CHOOSE i \in 1..64 : B64Alphabet[i] = c) - 1

\* The encoding without its "=" padding: the fault C6 detects.
RECURSIVE b64encode_unpadded(_)
b64encode_unpadded(b) ==
    IF b = <<>> THEN <<>>
    ELSE IF Len(b) = 1 THEN <<B64Char(b[1] \div 4), B64Char((b[1] % 4) * 16)>>
    ELSE IF Len(b) = 2 THEN
        <<B64Char(b[1] \div 4), B64Char((b[1] % 4) * 16 + b[2] \div 16),
          B64Char((b[2] % 16) * 4)>>
    ELSE <<B64Char(b[1] \div 4), B64Char((b[1] % 4) * 16 + b[2] \div 16),
           B64Char((b[2] % 16) * 4 + b[3] \div 64), B64Char(b[3] % 64)>>
         \o b64encode_unpadded(SubSeq(b, 4, Len(b)))

\* base64.b64encode(b).decode('utf-8')
RECURSIVE b64encode(_)
b64encode(b) ==
    IF b = <<>> THEN <<>>
    ELSE IF Len(b) = 1 THEN
        <<B64Char(b[1] \div 4), B64Char((b[1] % 4) * 16), "=", "=">>
    ELSE IF Len(b) = 2 THEN
        <<B64Char(b[1] \div 4), B64Char((b[1] % 4) * 16 + b[2] \div 16),
          B64Char((b[2] % 16) * 4), "=">>
    ELSE <<B64Char(b[1] \div 4), B64Char((b[1] % 4) * 16 + b[2] \div 16),
           B64Char((b[2] % 16) * 4 + b[3] \div 64), B64Char(b[3] % 64)>>
         \o b64encode(SubSeq(b, 4, Len(b)))

RECURSIVE b64decode_loop(_)
b64decode_loop(t) ==
    IF t = <<>> THEN <<>>
    ELSE LET v1 == B64Value(t[1])
             v2 == B64Value(t[2])
         IN  IF t[3] = "=" THEN <<v1 * 4 + v2 \div 16>>
             ELSE LET v3 == B64Value(t[3])
                  IN  IF t[4] = "=" THEN <<v1 * 4 + v2 \div 16, (v2 % 16) * 16 + v3 \div 4>>
                      ELSE <<v1 * 4 + v2 \div 16, (v2 % 16) * 16 + v3 \div 4,
                             (v3 % 4) * 64 + B64Value(t[4])>>
                           \o b64decode_loop(SubSeq(t, 5, Len(t)))

\* the text is well formed when it is groups of four alphabet characters,
\* the last group ending in at most two "="
B64WellFormed(t) ==
    /\ Len(t) % 4 = 0
    /\ \A i \in 1..Len(t) :
          \/ IsB64Char(t[i])
          \/ t[i] = "=" /\ i >= Len(t) - 1 /\ (i = Len(t) \/ t[Len(t)] = "=")

b64decode(t) ==
    IF ~B64WellFormed(t) THEN Raise("binascii.Error") ELSE Return(b64decode_loop(t))

(***************************************************************************)
(* hybrid.py of the DSTU 4145 variant: PureHybridSignature                 *)
(***************************************************************************)

\* A call that was not made, for the record of what the component calls of
\* one verification returned.
NotCalled == [ok |-> FALSE, value |-> None, error |-> "not called"]

HybridKeyPair(d, Q_bytes, mldsa_priv, mldsa_pub) ==
    [dstu_private_key |-> d, dstu_public_key_bytes |-> Q_bytes,
     mldsa_private_key |-> mldsa_priv, mldsa_public_key |-> mldsa_pub]

HybridSignature(dstu_sig, mldsa_sig, algorithm, timestamp, data_hash) ==
    [dstu_signature |-> dstu_sig, mldsa_signature |-> mldsa_sig,
     algorithm |-> algorithm, timestamp |-> timestamp,
     data_hash_kupyna |-> data_hash]

HybridAlgorithm == "DSTU-4145 + ML-DSA-44"

\* PureHybridSignature.__init__: self.dstu = create_dstu4145_257()
hybrid_dstu == create_dstu4145_257

\* The first try block of verify: the outcome of import_public_key followed
\* by verify, an exception of either one being the outcome.
hybrid_verify_dstu_pub(data, signature, dstu_pub) ==
    IF ~dstu_pub.ok THEN dstu_pub
    ELSE verify(hybrid_dstu, data, signature.dstu_signature, dstu_pub.value)

hybrid_verify_dstu(data, signature, keypair) ==
    hybrid_verify_dstu_pub(data, signature,
                           import_public_key(hybrid_dstu, keypair.dstu_public_key_bytes))

\* The second try block of verify
hybrid_verify_mldsa(data, signature, keypair, fault) ==
    MLDSA44_verify(data, signature.mldsa_signature, keypair.mldsa_public_key, fault)

\* The results dictionary with valid taken as the disjunction of the two
\* flags: the fault C1 detects.
hybrid_results_either(signature, dstu, mldsa) ==
    [valid |-> (dstu.ok /\ dstu.value) \/ (mldsa.ok /\ mldsa.value),
     dstu_valid |-> dstu.ok /\ dstu.value,
     mldsa_valid |-> mldsa.ok /\ mldsa.value,
     timestamp |-> signature.timestamp,
     errors |-> IF dstu.ok THEN <<>> ELSE <<<<"DSTU", dstu.error>>>>]

\* verify: the results dictionary, from the outcomes of the two try blocks
hybrid_results(signature, dstu, mldsa) ==
    LET dstu_valid == IF dstu.ok THEN dstu.value ELSE FALSE
        errors1 == IF dstu.ok THEN <<>> ELSE <<<<"DSTU", dstu.error>>>>
        mldsa_valid == IF mldsa.ok THEN mldsa.value ELSE FALSE
        errors2 == IF mldsa.ok THEN errors1 ELSE Append(errors1, <<"ML-DSA", mldsa.error>>)
    IN  [valid |-> dstu_valid /\ mldsa_valid,
         dstu_valid |-> dstu_valid,
         mldsa_valid |-> mldsa_valid,
         timestamp |-> signature.timestamp,
         errors |-> errors2]

hybrid_verify(data, signature, keypair, fault) ==
    hybrid_results(signature,
                   hybrid_verify_dstu(data, signature, keypair),
                   hybrid_verify_mldsa(data, signature, keypair, fault))

\* A JSON document: the text under each key path.  json.dumps and json.loads
\* carry the document; a key the reader asks for and the document lacks is
\* a KeyError.
JsonGet(doc, key) == IF key \in DOMAIN doc THEN Return(doc[key]) ELSE Raise("KeyError")

export_signature_json(signature) ==
    [key \in {"algorithm", "timestamp", "data_hash_kupyna",
              "dstu4145.r", "dstu4145.s", "mldsa44.signature"} |->
        CASE key = "algorithm" -> signature.algorithm
          [] key = "timestamp" -> signature.timestamp
          [] key = "data_hash_kupyna" -> signature.data_hash_kupyna
          [] key = "dstu4145.r" -> hex(signature.dstu_signature[1])
          [] key = "dstu4145.s" -> hex(signature.dstu_signature[2])
          [] key = "mldsa44.signature" -> b64encode(signature.mldsa_signature)]

\* export_keypair_json: the entries every export has
export_keypair_json_public(keypair) ==
    [key \in {"key_id", "created_at", "algorithm",
              "public_keys.dstu4145", "public_keys.mldsa44"} |->
        CASE key = "key_id" -> keypair.key_id
          [] key = "created_at" -> keypair.created_at
          [] key = "algorithm" -> HybridAlgorithm
          [] key = "public_keys.dstu4145" -> b64encode(keypair.dstu_public_key_bytes)
          [] key = "public_keys.mldsa44" -> b64encode(keypair.mldsa_public_key)]

\* export_keypair_json: data["private_keys"]
export_keypair_json_private(keypair) ==
    [key \in {"private_keys.dstu4145", "private_keys.mldsa44"} |->
        CASE key = "private_keys.dstu4145" -> hex(keypair.dstu_private_key)
          [] key = "private_keys.mldsa44" -> b64encode(keypair.mldsa_private_key)]

\* The export with include_private ignored, the private keys always
\* written: the fault C30 detects.
export_keypair_json_private_always(keypair, include_private) ==
    export_keypair_json_public(keypair) @@ export_keypair_json_private(keypair)

export_keypair_json(keypair, include_private) ==
    IF include_private
    THEN export_keypair_json_public(keypair) @@ export_keypair_json_private(keypair)
    ELSE export_keypair_json_public(keypair)

\* The first of a list of outcomes that is an exception, or the last one
RECURSIVE FirstRaise(_)
FirstRaise(outcomes) ==
    IF Len(outcomes) = 1 \/ ~Head(outcomes).ok THEN Head(outcomes)
    ELSE FirstRaise(Tail(outcomes))

\* int(text, 16) and base64.b64decode(text) of a looked-up text; a KeyError
\* of the look-up is the outcome
JsonInt16(text) == IF text.ok THEN int16(text.value) ELSE text

JsonB64Decode(text) == IF text.ok THEN b64decode(text.value) ELSE text

JsonFromHex(text) == IF text.ok THEN bytes_fromhex(text.value) ELSE text

\* import_signature_json, from the outcomes of reading its six fields in the
\* order the code reads them
import_signature_json_fields(dstu_r, dstu_s, mldsa_sig, algorithm, timestamp, data_hash) ==
    IF dstu_r.ok /\ dstu_s.ok /\ mldsa_sig.ok /\ algorithm.ok /\ timestamp.ok /\ data_hash.ok
    THEN Return(HybridSignature(<<dstu_r.value, dstu_s.value>>, mldsa_sig.value,
                                algorithm.value, timestamp.value, data_hash.value))
    ELSE FirstRaise(<<dstu_r, dstu_s, mldsa_sig, algorithm, timestamp, data_hash>>)

import_signature_json(doc) ==
    import_signature_json_fields(JsonInt16(JsonGet(doc, "dstu4145.r")),
                                 JsonInt16(JsonGet(doc, "dstu4145.s")),
                                 JsonB64Decode(JsonGet(doc, "mldsa44.signature")),
                                 JsonGet(doc, "algorithm"),
                                 JsonGet(doc, "timestamp"),
                                 JsonGet(doc, "data_hash_kupyna"))

(***************************************************************************)
(* The ECDSA P-256 variant: ecdsa_wrapper.py and hybrid.py                 *)
(***************************************************************************)

\* The ecdsa package is external: a signature is a byte string fixed by the
\* message and the private key (RFC 6979), and verify_digest returns True
\* for the signatures made for the message under the matching key and
\* raises otherwise.
ecdsa_generate_keypair(seed) == [private_key |-> <<40 + seed>>, public_key |-> <<30 + seed>>]

ecdsa_sign(data, private_key) ==
    <<(2 + 5 * ByteSum(data) + 7 * Len(data)) % 256, private_key[1]>>

verify_digest(signature, data, public_key) ==
    IF public_key # <<>> /\ signature = ecdsa_sign(data, <<public_key[1] + 10>>)
    THEN Return(TRUE)
    ELSE Raise("BadSignatureError")

\* hashlib.sha256 is external: a fixed function of the message
sha256(data) == <<(11 + 83 * ByteSum(data) + 29 * Len(data)) % 256>>

\* try: verify_digest(..); return True  except: return False
ECDSA_verify(data, signature, public_key) ==
    LET outcome == verify_digest(signature, data, public_key)
    IN  IF outcome.ok THEN Return(TRUE) ELSE Return(FALSE)

\* mldsa/wrapper.py of this variant: verification that maps every backend
\* exception to False
ecdsa_variant_MLDSA44_verify(data, signature, public_key, fault) ==
    LET is_valid == oqs_verify(data, signature, public_key, fault)
    IN  IF is_valid.ok THEN Return(is_valid.value) ELSE Return(FALSE)

EcdsaHybridSignature(ecdsa_sig, mldsa_sig, data_hash, timestamp, algorithm) ==
    [ecdsa_signature |-> ecdsa_sig, mldsa_signature |-> mldsa_sig,
     data_hash_sha256 |-> data_hash, timestamp |-> timestamp,
     algorithm |-> algorithm]

EcdsaHybridAlgorithm == "ECDSA-P256 + ML-DSA-44 + SHA-256"

\* HybridECDSA_MLDSA.verify, from what the two component calls returned:
\* an exception of a call is the outcome, nothing here catches it
ecdsa_hybrid_result(ecdsa, mldsa) ==
    IF ~ecdsa.ok THEN ecdsa
    ELSE IF ~mldsa.ok THEN mldsa
    ELSE Return(ecdsa.value /\ mldsa.value)

ecdsa_hybrid_export_signature(signature) ==
    [key \in {"algorithm", "timestamp", "data_hash_sha256",
              "ecdsa_p256.signature", "mldsa44.signature"} |->
        CASE key = "algorithm" -> signature.algorithm
          [] key = "timestamp" -> signature.timestamp
          [] key = "data_hash_sha256" -> signature.data_hash_sha256
          [] key = "ecdsa_p256.signature" -> bytes_hex(signature.ecdsa_signature)
          [] key = "mldsa44.signature" -> bytes_hex(signature.mldsa_signature)]

ecdsa_hybrid_import_signature_fields(ecdsa_sig, mldsa_sig, data_hash, timestamp, algorithm) ==
    IF ecdsa_sig.ok /\ mldsa_sig.ok /\ data_hash.ok /\ timestamp.ok /\ algorithm.ok
    THEN Return(EcdsaHybridSignature(ecdsa_sig.value, mldsa_sig.value, data_hash.value,
                                     timestamp.value, algorithm.value))
    ELSE FirstRaise(<<ecdsa_sig, mldsa_sig, data_hash, timestamp, algorithm>>)

ecdsa_hybrid_import_signature(doc) ==
    ecdsa_hybrid_import_signature_fields(JsonFromHex(JsonGet(doc, "ecdsa_p256.signature")),
                                         JsonFromHex(JsonGet(doc, "mldsa44.signature")),
                                         JsonGet(doc, "data_hash_sha256"),
                                         JsonGet(doc, "timestamp"),
                                         JsonGet(doc, "algorithm"))

(***************************************************************************)
(* Bounds of the explored inputs                                           *)
(***************************************************************************)

\* messages are the empty one and the one-byte ones up to this byte
MaxMsgByte == 1

\* seeds of the key pairs the external generators hand out
MaxSeed == 1

\* longest ML-DSA / ECDSA byte string of an exported envelope
MaxSigLen == 3

\* coordinates (as integers) of the sampled pairs that are not curve points
MaxOffCoord == 1

\* the largest scalar handed to multiply, beyond the order of both groups
MaxScalar == 45

\* draws of d = 0 in a row that generate_keypair is followed through
MaxKeygenDraws == 1000

Messages == {<<>>} \cup {<<b>> : b \in 1..MaxMsgByte}

Seeds == 1..MaxSeed

Timestamps == {"2025-01-01T00:00:00", "2025-06-30T12:30:00"}

RECURSIVE ByteStrings(_, _)
ByteStrings(alphabet, maxlen) ==
    IF maxlen = 0 THEN {<<>>}
    ELSE LET shorter == ByteStrings(alphabet, maxlen - 1)
         IN  shorter \cup {Append(b, x) : b \in shorter, x \in alphabet}

(***************************************************************************)
(* State                                                                   *)
(***************************************************************************)

VARIABLES
    scheme,     \* the object in use: a DSTU4145 of create_dstu4145_163, a
                \* PureHybridSignature, or a HybridECDSA_MLDSA
    pc,         \* where the caller stands: "init", "ready", "signing",
                \* "signed", "verified"; "idle" when no object is in use
    keypair,    \* the key pair generate_keypair returned
    data,       \* the message handed to sign
    attempts,   \* iterations the loop of generate_keypair or of sign has
                \* completed without returning
    signature,  \* the signature sign returned
    called,     \* what the calls made by the last operation returned: the
                \* two component calls of verify, the tests of a base point
    results,    \* the dictionary the last PureHybridSignature.verify returned
    random_state, \* the state of the generator of Python's module random, which
                \* is shared by everything in the process
    op,         \* the last operation applied
    args,       \* its inputs
    ret         \* its outcome

flowvars == <<scheme, pc, keypair, data, attempts, signature, called, results, random_state>>

vars == <<scheme, pc, keypair, data, attempts, signature, called, results, random_state,
          op, args, ret>>

\* sign: max_attempts = 1000
max_attempts == 1000

NoKeyPair == [private_key |-> 0, public_key |-> PointO]

NoSignature == [dstu_signature |-> <<0, 0>>]

NoCalls == [classical |-> NotCalled, mldsa |-> NotCalled]

NoResults == [valid |-> FALSE, dstu_valid |-> FALSE, mldsa_valid |-> FALSE,
              timestamp |-> "", errors |-> <<>>]

NoArgs == [data |-> <<>>, tamper |-> "none", fault |-> FALSE]

Schemes == {"dstu163", "hybrid", "ecdsa"}

\* the DSTU4145 object of the scheme
Dstu(sch) == IF sch = "dstu163" THEN create_dstu4145_163 ELSE hybrid_dstu

FlowIdle ==
    /\ scheme = "none"
    /\ pc = "idle"
    /\ keypair = NoKeyPair
    /\ data = <<>>
    /\ attempts = 0
    /\ signature = NoSignature
    /\ called = NoCalls
    /\ results = NoResults
    /\ random_state = 0

Init ==
    /\ scheme \in Schemes
    /\ pc = "init"
    /\ keypair = NoKeyPair
    /\ data = <<>>
    /\ attempts = 0
    /\ signature = NoSignature
    /\ called = NoCalls
    /\ results = NoResults
    /\ random_state = 0
    /\ op = "init"
    /\ args = NoArgs
    /\ ret = NotCalled

(***************************************************************************)
(* Key generation                                                          *)
(***************************************************************************)

\* PureHybridSignature.generate_keypair once DSTU4145.generate_keypair has
\* returned (d, Q): Q is exported and the ML-DSA pair added
HybridKeygenReturn(d, Q_bytes, mldsa) ==
    IF Q_bytes.ok
    THEN /\ keypair' = HybridKeyPair(d, Q_bytes.value, mldsa.private_key, mldsa.public_key)
         /\ ret' = Return(keypair')
         /\ pc' = "ready"
    ELSE /\ ret' = Q_bytes
         /\ UNCHANGED <<keypair, pc>>

\* DSTU4145.generate_keypair returns (d, Q), to the caller or to
\* PureHybridSignature.generate_keypair
KeygenReturn(D, d, Q, seed) ==
    /\ op' = "generate_keypair"
    /\ attempts' = 0
    /\ IF scheme = "dstu163"
       THEN /\ keypair' = [private_key |-> d, public_key |-> Q]
            /\ ret' = Return(keypair')
            /\ pc' = "ready"
       ELSE HybridKeygenReturn(d, export_public_key(D, Q), oqs_generate_keypair(seed))

\* DSTU4145.generate_keypair, one iteration of its loop (while True) for
\* the draw d: d = 0 draws again, and nothing ends the loop; otherwise
\* Q = d * P and the pair is returned.  The iterations are counted up to
\* MaxKeygenDraws.
KeygenLoop(D, seed) ==
    \E d \in 0..(D.n - 1) :
        IF d = 0
        THEN /\ attempts' = IF attempts < MaxKeygenDraws THEN attempts + 1 ELSE attempts
             /\ UNCHANGED <<keypair, pc, op, ret>>
        ELSE KeygenReturn(D, d, scalar_multiply(D, d, D.P), seed)

KeygenDraw ==
    /\ scheme \in {"dstu163", "hybrid"}
    /\ pc = "init"
    /\ \E seed \in Seeds : KeygenLoop(Dstu(scheme), seed)
    /\ UNCHANGED <<scheme, data, signature, called, results, args, random_state>>

\* HybridECDSA_MLDSA.generate_keypair
EcdsaKeygenReturn(ecdsa, mldsa) ==
    keypair' = [ecdsa_private_key |-> ecdsa.private_key,
                ecdsa_public_key |-> ecdsa.public_key,
                mldsa_private_key |-> mldsa.private_key,
                mldsa_public_key |-> mldsa.public_key]

EcdsaKeygen ==
    /\ scheme = "ecdsa"
    /\ pc = "init"
    /\ \E seed1 \in Seeds, seed2 \in Seeds :
        EcdsaKeygenReturn(ecdsa_generate_keypair(seed1), oqs_generate_keypair(seed2))
    /\ op' = "generate_keypair"
    /\ ret' = Return(keypair')
    /\ pc' = "ready"
    /\ UNCHANGED <<scheme, data, attempts, signature, called, results, args, random_state>>

(***************************************************************************)
(* Signing                                                                 *)
(***************************************************************************)

PrivateKey(sch, kp) == IF sch = "dstu163" THEN kp.private_key ELSE kp.dstu_private_key

\* sign is entered with a message and a private key: the key of the pair,
\* or one outside (0, n), which is refused before anything is drawn.
SignEnter(n, own_key) ==
    \E msg \in Messages, private_key \in {own_key, 0, n} :
        IF ~(0 < private_key /\ private_key < n)
        THEN /\ op' = "sign"
             /\ ret' = Raise("ValueError")
             /\ UNCHANGED <<pc, data, attempts>>
        ELSE /\ op' = "sign"
             /\ ret' = NotCalled
             /\ pc' = "signing"
             /\ data' = msg
             /\ attempts' = 0

SignBegin ==
    /\ scheme \in {"dstu163", "hybrid"}
    /\ pc = "ready"
    /\ SignEnter(Dstu(scheme).n, PrivateKey(scheme, keypair))
    /\ UNCHANGED <<scheme, keypair, signature, called, results, args, random_state>>

\* The end of one iteration of the loop of sign.  A rejected draw counts;
\* the last of max_attempts rejected draws ends in RuntimeError.  The
\* accepted draw returns (r, s): to the caller, or to
\* PureHybridSignature.sign, which adds the ML-DSA signature, the time and
\* the digest.
SignStep(out, now) ==
    IF out = None
    THEN IF attempts + 1 < max_attempts
         THEN /\ attempts' = attempts + 1
              /\ UNCHANGED <<pc, signature, op, ret>>
         ELSE /\ attempts' = 0
              /\ pc' = "ready"
              /\ op' = "sign"
              /\ ret' = Raise("RuntimeError")
              /\ UNCHANGED signature
    ELSE /\ attempts' = 0
         /\ pc' = "signed"
         /\ op' = "sign"
         /\ signature' =
               IF scheme = "dstu163" THEN [dstu_signature |-> out]
               ELSE HybridSignature(out, oqs_sign(data, keypair.mldsa_private_key),
                                    HybridAlgorithm, now, bytes_hex(hash_data(data)))
         /\ ret' = Return(signature')

\* One iteration of the loop of sign for the draw e
SignLoop(D, h, private_key) ==
    \E e \in 0..(D.n - 1), now \in Timestamps :
        SignStep(sign_attempt(D, h, private_key, e), now)

SignDraw ==
    /\ scheme \in {"dstu163", "hybrid"}
    /\ pc = "signing"
    /\ SignLoop(Dstu(scheme), hash_to_field_element(Dstu(scheme), hash_data(data)),
                PrivateKey(scheme, keypair))
    /\ UNCHANGED <<scheme, keypair, data, called, results, args, random_state>>

\* HybridECDSA_MLDSA.sign
EcdsaSign ==
    /\ scheme = "ecdsa"
    /\ pc = "ready"
    /\ \E msg \in Messages, now \in Timestamps :
        /\ data' = msg
        /\ signature' = EcdsaHybridSignature(
                            ecdsa_sign(msg, keypair.ecdsa_private_key),
                            oqs_sign(msg, keypair.mldsa_private_key),
                            bytes_hex(sha256(msg)), now, EcdsaHybridAlgorithm)
    /\ op' = "sign"
    /\ ret' = Return(signature')
    /\ pc' = "signed"
    /\ UNCHANGED <<scheme, keypair, attempts, called, results, args, random_state>>

(***************************************************************************)
(* Verification                                                            *)
(***************************************************************************)

\* What the verifier is handed: the signature and key as they were made, or
\* one of them altered on the way.
Tampers == {"none", "reimported", "r", "s", "mldsa", "pk_len", "pk_off"}

FlipByte(b) == [b EXCEPT ![1] = (b[1] + 1) % 256]

\* another value of 1 .. n-1
OtherResidue(v, n) == (v % (n - 1)) + 1

\* an encoding of the right length whose coordinates are not a curve point
OffCurveKeyBytes ==
    CHOOSE b \in {<<x, y>> : x \in 0..MaxOffCoord, y \in 0..MaxOffCoord} :
        ~import_public_key(hybrid_dstu, b).ok

TamperSignature(D, sig, kind) ==
    CASE kind = "r" ->
            [sig EXCEPT !.dstu_signature =
                <<OtherResidue(sig.dstu_signature[1], D.n), sig.dstu_signature[2]>>]
      [] kind = "s" ->
            [sig EXCEPT !.dstu_signature =
                <<sig.dstu_signature[1], OtherResidue(sig.dstu_signature[2], D.n)>>]
      [] kind = "mldsa" -> [sig EXCEPT !.mldsa_signature = FlipByte(sig.mldsa_signature)]
      [] kind = "reimported" -> import_signature_json(export_signature_json(sig)).value
      [] OTHER -> sig

TamperKeyPair(kp, kind) ==
    CASE kind = "pk_len" ->
            [kp EXCEPT !.dstu_public_key_bytes = Append(kp.dstu_public_key_bytes, 0)]
      [] kind = "pk_off" -> [kp EXCEPT !.dstu_public_key_bytes = OffCurveKeyBytes]
      [] OTHER -> kp

\* DSTU4145.verify, called with a message, a signature and the public key
DstuVerify ==
    /\ scheme = "dstu163"
    /\ pc = "signed"
    /\ \E msg \in Messages, kind \in {"none", "r", "s"} :
        /\ args' = [data |-> msg, tamper |-> kind, fault |-> FALSE]
        /\ ret' = verify(create_dstu4145_163, msg,
                         TamperSignature(create_dstu4145_163, signature, kind).dstu_signature,
                         keypair.public_key)
    /\ op' = "verify"
    /\ pc' = "verified"
    /\ UNCHANGED <<scheme, keypair, data, attempts, signature, called, results, random_state>>

\* PureHybridSignature.verify of a message, a signature and a key pair, from
\* the outcomes of its two try blocks
HybridVerifyReturn(sig, dstu, mldsa) ==
    /\ called' = [classical |-> dstu, mldsa |-> mldsa]
    /\ results' = hybrid_results(sig, dstu, mldsa)
    /\ ret' = Return(results')

HybridVerifyCall(msg, sig, kp, fault) ==
    HybridVerifyReturn(sig, hybrid_verify_dstu(msg, sig, kp),
                       hybrid_verify_mldsa(msg, sig, kp, fault))

\* PureHybridSignature.verify; the backend of ML-DSA may fail
HybridVerify ==
    /\ scheme = "hybrid"
    /\ pc = "signed"
    /\ \E msg \in Messages, kind \in Tampers, fault \in BOOLEAN :
        /\ args' = [data |-> msg, tamper |-> kind, fault |-> fault]
        /\ HybridVerifyCall(msg, TamperSignature(hybrid_dstu, signature, kind),
                            TamperKeyPair(keypair, kind), fault)
    /\ op' = "verify"
    /\ pc' = "verified"
    /\ UNCHANGED <<scheme, keypair, data, attempts, signature, random_state>>

EcdsaTamper(sig, kind) ==
    CASE kind = "ecdsa" -> [sig EXCEPT !.ecdsa_signature = FlipByte(sig.ecdsa_signature)]
      [] kind = "mldsa" -> [sig EXCEPT !.mldsa_signature = FlipByte(sig.mldsa_signature)]
      [] OTHER -> sig

\* HybridECDSA_MLDSA.verify, from what its two component calls returned
EcdsaHybridVerifyReturn(ecdsa, mldsa) ==
    /\ called' = [classical |-> ecdsa, mldsa |-> mldsa]
    /\ ret' = ecdsa_hybrid_result(ecdsa, mldsa)

EcdsaHybridVerifyCall(msg, sig, kp, fault) ==
    EcdsaHybridVerifyReturn(
        ECDSA_verify(msg, sig.ecdsa_signature, kp.ecdsa_public_key),
        ecdsa_variant_MLDSA44_verify(msg, sig.mldsa_signature, kp.mldsa_public_key, fault))

\* HybridECDSA_MLDSA.verify
EcdsaHybridVerify ==
    /\ scheme = "ecdsa"
    /\ pc = "signed"
    /\ \E msg \in Messages, kind \in {"none", "ecdsa", "mldsa"}, fault \in BOOLEAN :
        /\ args' = [data |-> msg, tamper |-> kind, fault |-> fault]
        /\ EcdsaHybridVerifyCall(msg, EcdsaTamper(signature, kind), keypair, fault)
    /\ op' = "verify"
    /\ pc' = "verified"
    /\ UNCHANGED <<scheme, keypair, data, attempts, signature, results, random_state>>

Next ==
    \/ KeygenDraw
    \/ EcdsaKeygen
    \/ SignBegin
    \/ SignDraw
    \/ EcdsaSign
    \/ DstuVerify
    \/ HybridVerify
    \/ EcdsaHybridVerify

Spec == Init /\ [][Next]_vars

(***************************************************************************)
(* The operations of the field, one at a time on drawn inputs              *)
(***************************************************************************)

\* the byte strings handed to element_from_bytes: every string of at most
\* one byte, one byte being the canonical length of the fields
FieldByteStrings == ByteStrings(0..255, 1)

FieldArgs ==
    {[f |-> f, a |-> a, data |-> <<0>>] :
        f \in DOMAIN DSTU_FIELDS, a \in Elements(DSTU_FIELDS[1])}
    \cup
    {[f |-> f, a |-> zero(DSTU_FIELDS[1]), data |-> b] :
        f \in DOMAIN DSTU_FIELDS, b \in FieldByteStrings}

InitField ==
    /\ FlowIdle
    /\ op = "init"
    /\ args \in FieldArgs
    /\ ret = NotCalled

Inverse ==
    /\ op = "init"
    /\ op' = "inverse"
    /\ ret' = Return(inverse(DSTU_FIELDS[args.f], args.a))
    /\ UNCHANGED <<args, flowvars>>

ElementFromBytes ==
    /\ op = "init"
    /\ op' = "element_from_bytes"
    /\ ret' = Return(element_from_bytes(DSTU_FIELDS[args.f], args.data))
    /\ UNCHANGED <<args, flowvars>>

\* element_to_bytes of the element element_from_bytes returned
ElementToBytes ==
    /\ op = "element_from_bytes"
    /\ op' = "element_to_bytes"
    /\ ret' = Return(element_to_bytes(DSTU_FIELDS[args.f], ret.value))
    /\ UNCHANGED <<args, flowvars>>

NextField == Inverse \/ ElementFromBytes \/ ElementToBytes

SpecField == InitField /\ [][NextField]_vars

(***************************************************************************)
(* Point compression, on every point of the two curves                     *)
(***************************************************************************)

CurveArgs ==
    {[i |-> 1, P |-> Q] : Q \in CurvePoints(DSTU_INSTANCES[1])}
    \cup {[i |-> 2, P |-> Q] : Q \in CurvePoints(DSTU_INSTANCES[2])}

InitCurve ==
    /\ FlowIdle
    /\ op = "init"
    /\ args \in CurveArgs
    /\ ret = NotCalled

CompressPoint ==
    /\ op = "init"
    /\ op' = "compress_point"
    /\ ret' = Return(compress_point(DSTU_INSTANCES[args.i].curve, args.P))
    /\ UNCHANGED <<args, flowvars>>

\* decompress_point of what compress_point returned
DecompressPoint ==
    /\ op = "compress_point"
    /\ op' = "decompress_point"
    /\ ret' = decompress_point(DSTU_INSTANCES[args.i].curve, ret.value)
    /\ UNCHANGED <<args, flowvars>>

NextCurve == CompressPoint \/ DecompressPoint

SpecCurve == InitCurve /\ [][NextCurve]_vars

(***************************************************************************)
(* DSTU4145.verify on arbitrary messages, integers and points              *)
(***************************************************************************)

\* pairs of field elements that are not points of the curve
OffCurvePoints(D) ==
    {Q \in {Point(element_from_int(D.field, x), element_from_int(D.field, y)) :
                x \in 0..MaxOffCoord, y \in 0..MaxOffCoord} :
        ~is_on_curve(D.curve, Q)}

VerifyArgsOf(i, D) ==
    {[i |-> i, data |-> msg, r |-> r, s |-> s, Q |-> Q] :
        msg \in Messages, r \in -1..(D.n + 1), s \in -1..(D.n + 1),
        Q \in CurvePoints(D) \cup OffCurvePoints(D)}

InitVerify ==
    /\ FlowIdle
    /\ op = "init"
    /\ \/ args \in VerifyArgsOf(1, DSTU_INSTANCES[1])
       \/ args \in VerifyArgsOf(2, DSTU_INSTANCES[2])
    /\ ret = NotCalled

Verify ==
    /\ op = "init"
    /\ op' = "verify"
    /\ ret' = verify(DSTU_INSTANCES[args.i], args.data, <<args.r, args.s>>, args.Q)
    /\ UNCHANGED <<args, flowvars>>

NextVerify == Verify

SpecVerify == InitVerify /\ [][NextVerify]_vars

(***************************************************************************)
(* Export and import of signatures                                         *)
(***************************************************************************)

\* longest byte string handed to import_signature
MaxRawLen == 5

\* the bytes of the sampled ML-DSA and ECDSA signatures
SampleBytes == {0, 77, 255}

\* the integers of the sampled DSTU signatures of an envelope
JsonInts == {-1, 0, 1, 10, 255, 256, 4095}

\* DSTU4145.__init__ stores the order n it is given, and export_signature
\* and import_signature read nothing else: the orders of the two parameter
\* sets, one byte long, and two around the step from one byte to two (the
\* orders of the standard are 21 and 33 bytes long).
SignatureOrders == {create_dstu4145_163.n, create_dstu4145_257.n, 251, 257}

DstuOfOrder(n) == [create_dstu4145_163 EXCEPT !.n = n]

\* r and s around the ends of 0 .. n-1 and around the step to a second byte
SignatureInts(n) == {v \in -1..n : v < 2 \/ v > n - 3 \/ (253 < v /\ v < 258)}

JsonArgs ==
    {[kind |-> "json", n |-> 0, raw |-> <<>>,
      sig |-> HybridSignature(<<r, s>>, m, HybridAlgorithm, t, bytes_hex(hash_data(msg)))] :
        r \in JsonInts, s \in JsonInts, m \in ByteStrings(SampleBytes, MaxSigLen),
        t \in Timestamps, msg \in Messages}

EcdsaJsonArgs ==
    {[kind |-> "ecdsa_json", n |-> 0, raw |-> <<>>,
      sig |-> EcdsaHybridSignature(e, m, bytes_hex(sha256(msg)), t, EcdsaHybridAlgorithm)] :
        e \in ByteStrings(SampleBytes, MaxSigLen - 1), m \in ByteStrings(SampleBytes, MaxSigLen),
        t \in Timestamps, msg \in Messages}

BinaryArgsOf(n) ==
    {[kind |-> "binary", n |-> n, raw |-> <<>>, sig |-> [dstu_signature |-> <<r, s>>]] :
        r \in SignatureInts(n), s \in SignatureInts(n)}

RawArgs ==
    {[kind |-> "raw", n |-> n, raw |-> b, sig |-> NoSignature] :
        n \in SignatureOrders, b \in ByteStrings({0, 255}, MaxRawLen)}

InitCodec ==
    /\ FlowIdle
    /\ op = "init"
    /\ \/ args \in JsonArgs
       \/ args \in EcdsaJsonArgs
       \/ \E n \in SignatureOrders : args \in BinaryArgsOf(n)
       \/ args \in RawArgs
    /\ ret = NotCalled

ExportSignatureJson ==
    /\ op = "init"
    /\ args.kind = "json"
    /\ op' = "export_signature_json"
    /\ ret' = Return(export_signature_json(args.sig))
    /\ UNCHANGED <<args, flowvars>>

\* import_signature_json of the document export_signature_json returned
ImportSignatureJson ==
    /\ op = "export_signature_json"
    /\ op' = "import_signature_json"
    /\ ret' = import_signature_json(ret.value)
    /\ UNCHANGED <<args, flowvars>>

EcdsaExportSignature ==
    /\ op = "init"
    /\ args.kind = "ecdsa_json"
    /\ op' = "ecdsa_export_signature"
    /\ ret' = Return(ecdsa_hybrid_export_signature(args.sig))
    /\ UNCHANGED <<args, flowvars>>

EcdsaImportSignature ==
    /\ op = "ecdsa_export_signature"
    /\ op' = "ecdsa_import_signature"
    /\ ret' = ecdsa_hybrid_import_signature(ret.value)
    /\ UNCHANGED <<args, flowvars>>

ExportSignature ==
    /\ op = "init"
    /\ args.kind = "binary"
    /\ op' = "export_signature"
    /\ ret' = export_signature(DstuOfOrder(args.n), args.sig.dstu_signature)
    /\ UNCHANGED <<args, flowvars>>

\* import_signature of the bytes export_signature returned
ImportSignature ==
    /\ op = "export_signature"
    /\ ret.ok
    /\ op' = "import_signature"
    /\ ret' = import_signature(DstuOfOrder(args.n), ret.value)
    /\ UNCHANGED <<args, flowvars>>

\* import_signature of a byte string of any length
ImportSignatureBytes ==
    /\ op = "init"
    /\ args.kind = "raw"
    /\ op' = "import_signature"
    /\ ret' = import_signature(DstuOfOrder(args.n), args.raw)
    /\ UNCHANGED <<args, flowvars>>

NextCodec ==
    \/ ExportSignatureJson
    \/ ImportSignatureJson
    \/ EcdsaExportSignature
    \/ EcdsaImportSignature
    \/ ExportSignature
    \/ ImportSignature
    \/ ImportSignatureBytes

SpecCodec == InitCodec /\ [][NextCodec]_vars

(***************************************************************************)
(* The orders of the two parameter sets at their full width.  An integer   *)
(* wider than the model's integers is the tuple of its bytes, the most     *)
(* significant first and not zero.                                         *)
(***************************************************************************)

\* get_dstu_curve_163: n = 0x400000000000000000002BEC12BE2262D39BCF14D
n_163 ==
    <<4, 0, 0, 0, 0, 0, 0, 0, 0, 0, 2, 190, 193, 43, 226, 38, 45, 57, 188, 241, 77>>

\* get_dstu_curve_257:
\* n = 0x800000000000000000000000000000006759213AF182E987D3E17714907D470D
n_257 ==
    <<128, 0, 0, 0, 0, 0, 0, 0, 0, 0, 0, 0, 0, 0, 0, 0,
      103, 89, 33, 58, 241, 130, 233, 135, 211, 225, 119, 20, 144, 125, 71, 13>>

\* the order of the parameter set of the given field degree
WideOrder(key) == IF key = 163 THEN n_163 ELSE n_257

\* int.bit_length of a wide integer
wide_bit_length(v) == IF v = <<>> THEN 0 ELSE 8 * (Len(v) - 1) + bit_length(v[1])

\* int.to_bytes(length, byteorder='big') of a wide integer
wide_to_bytes(v, length) ==
    IF Len(v) > length THEN Raise("OverflowError")
    ELSE Return(Zeros(length - Len(v)) \o v)

\* The byte count rounded down: the fault C11 detects.
export_signature_n_bytes_floor(n) == wide_bit_length(n) \div 8

\* export_signature: n_bytes = (self.n.bit_length() + 7) // 8
export_signature_n_bytes(n) == (wide_bit_length(n) + 7) \div 8

\* export_signature: r_bytes + s_bytes
export_signature_concat(r_bytes, s_bytes) ==
    IF ~r_bytes.ok THEN r_bytes
    ELSE IF ~s_bytes.ok THEN s_bytes
    ELSE Return(r_bytes.value \o s_bytes.value)

\* DSTU4145.export_signature at full width
wide_export_signature(n, sig) ==
    export_signature_concat(wide_to_bytes(sig[1], export_signature_n_bytes(n)),
                            wide_to_bytes(sig[2], export_signature_n_bytes(n)))

\* n - 1, for an n whose last byte is not zero
WidePred(n) == [n EXCEPT ![Len(n)] = n[Len(n)] - 1]

\* integers of 0 <= v < n of every byte length: 0, 1, 255, the leading bytes
\* of n, and n - 1
WideInts(n) ==
    {<<>>, <<1>>, <<255>>, WidePred(n)} \cup {SubSeq(n, 1, k) : k \in 1..(Len(n) - 1)}

SizeArgs ==
    {[key |-> key, sig |-> <<r, s>>] :
        key \in {163}, r \in WideInts(n_163), s \in WideInts(n_163)}
    \cup {[key |-> key, sig |-> <<r, s>>] :
        key \in {257}, r \in WideInts(n_257), s \in WideInts(n_257)}

InitSize ==
    /\ FlowIdle
    /\ op = "init"
    /\ args \in SizeArgs
    /\ ret = NotCalled

WideExportSignature ==
    /\ op = "init"
    /\ op' = "export_signature"
    /\ ret' = wide_export_signature(WideOrder(args.key), args.sig)
    /\ UNCHANGED <<flowvars, args>>

NextSize == WideExportSignature

SpecSize == InitSize /\ [][NextSize]_vars

(***************************************************************************)
(* The public-key codec, on every point of the two curves and on byte      *)
(* strings that are not encodings                                          *)
(***************************************************************************)

\* largest byte of the two-byte strings handed to import_public_key; the
\* coordinates of the fields are the bytes below 2^5
MaxKeyByte == 63

KeyPointArgs(i) ==
    {[i |-> i, kind |-> "point", P |-> Q, raw |-> <<>>] : Q \in CurvePoints(DSTU_INSTANCES[i])}

\* every two-byte string over 0..MaxKeyByte, and strings of other lengths
KeyRawArgs(i) ==
    {[i |-> i, kind |-> "raw", P |-> PointO, raw |-> <<x, y>>] :
        x \in 0..MaxKeyByte, y \in 0..MaxKeyByte}
    \cup {[i |-> i, kind |-> "raw", P |-> PointO, raw |-> b] :
            b \in {<<>>, <<7>>, <<0, 7, 8>>, <<7, 8, 0>>}}

InitKey ==
    /\ FlowIdle
    /\ op = "init"
    /\ \E i \in {1, 2} : args \in KeyPointArgs(i) \cup KeyRawArgs(i)
    /\ ret = NotCalled

ExportPublicKey ==
    /\ op = "init"
    /\ args.kind = "point"
    /\ op' = "export_public_key"
    /\ ret' = export_public_key(DSTU_INSTANCES[args.i], args.P)
    /\ UNCHANGED <<args, flowvars>>

\* import_public_key of what export_public_key returned
ImportPublicKey ==
    /\ op = "export_public_key"
    /\ ret.ok
    /\ op' = "import_public_key"
    /\ ret' = import_public_key(DSTU_INSTANCES[args.i], ret.value)
    /\ UNCHANGED <<args, flowvars>>

\* import_public_key of a byte string
ImportPublicKeyBytes ==
    /\ op = "init"
    /\ args.kind = "raw"
    /\ op' = "import_public_key_bytes"
    /\ ret' = import_public_key(DSTU_INSTANCES[args.i], args.raw)
    /\ UNCHANGED <<args, flowvars>>

\* export_public_key of the point import_public_key accepted
ExportImportedKey ==
    /\ op = "import_public_key_bytes"
    /\ ret.ok
    /\ op' = "export_imported_key"
    /\ ret' = export_public_key(DSTU_INSTANCES[args.i], ret.value)
    /\ UNCHANGED <<args, flowvars>>

NextKey == ExportPublicKey \/ ImportPublicKey \/ ImportPublicKeyBytes \/ ExportImportedKey

SpecKey == InitKey /\ [][NextKey]_vars

(***************************************************************************)
(* DSTU4145.__init__ and generate_keypair, on every base point the         *)
(* constructor can be handed                                               *)
(***************************************************************************)

\* DSTU4145.__init__: the base point must satisfy is_on_curve
DSTU4145_init(field, curve, base_point, n) ==
    IF ~is_on_curve(curve, base_point) THEN Raise("ValueError")
    ELSE Return([field |-> field, curve |-> curve, P |-> base_point, n |-> n])

\* the field, the curve and the order of a parameter set, and as base point
\* any point of the curve, the point at infinity, or a pair off the curve
InstanceArgs(i) ==
    {[i |-> i, base_point |-> Q] :
        Q \in CurvePoints(DSTU_INSTANCES[i]) \cup OffCurvePoints(DSTU_INSTANCES[i])}

InitInstance ==
    /\ FlowIdle
    /\ op = "init"
    /\ \E i \in {1, 2} : args \in InstanceArgs(i)
    /\ ret = NotCalled

ConstructInstance ==
    /\ op = "init"
    /\ op' = "DSTU4145"
    /\ ret' = DSTU4145_init(DSTU_INSTANCES[args.i].field, DSTU_INSTANCES[args.i].curve,
                            args.base_point, DSTU_INSTANCES[args.i].n)
    /\ UNCHANGED <<args, flowvars>>

\* generate_keypair of the constructed instance D, for the draw d: d = 0
\* draws again, otherwise (d, d * P) is returned
InstanceKeygenDraw(D, d) ==
    IF d = 0 THEN UNCHANGED <<op, ret>>
    ELSE /\ op' = "generate_keypair"
         /\ ret' = Return([private_key |-> d, public_key |-> scalar_multiply(D, d, D.P)])

InstanceKeygen ==
    /\ op = "DSTU4145"
    /\ ret.ok
    /\ \E d \in 0..(ret.value.n - 1) : InstanceKeygenDraw(ret.value, d)
    /\ UNCHANGED <<args, flowvars>>

NextInstance == ConstructInstance \/ InstanceKeygen

SpecInstance == InitInstance /\ [][NextInstance]_vars

(***************************************************************************)
(* curve.py: compute_random_point, one pass of its loop for every draw     *)
(***************************************************************************)

\* the pass of a loop ended in continue
Continue == [ok |-> FALSE, value |-> None, error |-> "continue"]

compute_random_point_max_attempts == 1000

\* the last step of a pass: the point is returned if it is on the curve
compute_random_point_point(C, point) ==
    IF is_on_curve(C, point) THEN Return(point) ELSE Continue

\* from (count, z) of z^2 + z + v = 0: yP = z * xP
compute_random_point_z(C, xP, sol) ==
    IF sol[1] = 0 THEN Continue
    ELSE compute_random_point_point(C, Point(xP, multiply(C.field, sol[2], xP)))

\* from v = multiply(w, xP_squared_inv): multiply raises AttributeError
\* when it is handed the None that inverse returns for zero
compute_random_point_v(C, xP, v) ==
    IF v = Poison THEN Raise("AttributeError")
    ELSE compute_random_point_z(C, xP, solve_quadratic(C.field, one(C.field), v))

\* w = xP^3 + A xP^2 + B and the inverse of xP^2, which never raises, so
\* that the except clause around it is never entered
compute_random_point_w(C, xP, xP_squared) ==
    compute_random_point_v(C, xP,
        multiply(C.field, curve_right_side(C, xP, xP_squared),
                 inverse(C.field, xP_squared)))

\* the second trace test, of xP + 1
compute_random_point_trace(C, xP) ==
    IF trace(C.field, xP) # C.A THEN Continue
    ELSE compute_random_point_w(C, xP, square(C.field, xP))

compute_random_point_xP(C, xP) ==
    IF is_zero(C.field, xP) THEN Continue
    ELSE IF trace(C.field, xP) # C.A
         THEN compute_random_point_trace(C, add(C.field, xP, one(C.field)))
    ELSE compute_random_point_w(C, xP, square(C.field, xP))

\* one pass of the loop, for the drawn xP_int: Return(point), Raise(e) or
\* Continue
compute_random_point_pass(C, xP_int) ==
    compute_random_point_xP(C, element_from_int(C.field, xP_int))

\* no signing flow is in progress
GenIdle ==
    /\ scheme = "none"
    /\ pc = "idle"
    /\ keypair = NoKeyPair
    /\ data = <<>>
    /\ signature = NoSignature
    /\ results = NoResults

genvars == <<scheme, pc, keypair, data, signature, results>>

InitRandomPoint ==
    /\ GenIdle
    /\ attempts = 0
    /\ called = NoCalls
    /\ random_state = 0
    /\ op = "init"
    /\ args \in [i : {1, 2}]
    /\ ret = NotCalled

\* the call of compute_random_point(seed = None) on the curve of a parameter
\* set: the loop is entered
RandomPointCall ==
    /\ op = "init"
    /\ op' = "compute_random_point"
    /\ attempts' = 0
    /\ UNCHANGED <<ret, args, called, random_state, genvars>>

\* the end of a pass of the loop
RandomPointPassed(outcome) ==
    IF outcome.error = "continue"
    THEN attempts' = attempts + 1 /\ UNCHANGED ret
    ELSE ret' = outcome /\ UNCHANGED attempts

\* one pass of the loop: random.randint(1, 2^m - 1) hands any xP_int of its
\* range (the draws are arbitrary here; the state of the generator is
\* followed in SpecGenerate)
RandomPointPass ==
    /\ op = "compute_random_point"
    /\ ret.error = "not called"
    /\ attempts < compute_random_point_max_attempts
    /\ \E xP_int \in 1..(Pow2(DSTU_INSTANCES[args.i].field.m) - 1) :
          RandomPointPassed(compute_random_point_pass(DSTU_INSTANCES[args.i].curve, xP_int))
    /\ UNCHANGED <<op, args, called, random_state, genvars>>

\* the loop ran max_attempts times
RandomPointExhausted ==
    /\ op = "compute_random_point"
    /\ ret.error = "not called"
    /\ attempts = compute_random_point_max_attempts
    /\ ret' = Raise("ValueError")
    /\ UNCHANGED <<op, args, attempts, called, random_state, genvars>>

NextRandomPoint == RandomPointCall \/ RandomPointPass \/ RandomPointExhausted

SpecRandomPoint == InitRandomPoint /\ [][NextRandomPoint]_vars

(***************************************************************************)
(* curve.py: compute_random_point, compute_base_point and the base points  *)
(* of the two factories, drawing from the generator of the module random   *)
(***************************************************************************)

\* The generator of Python's module random is an external primitive: seed
\* puts it in a state that is a function of the seed, and every draw is a
\* function of the state and steps the state (a congruential generator of
\* full period stands for the Mersenne Twister).
RandomStates == 0..31

\* random.seed(a)
random_seed(a) == a % 32

\* the value random.randint(a, b) returns in a state
random_randint(state, a, b) == a + (state % (b - a + 1))

\* the state random.randint leaves
random_advance(state) == (5 * state + 3) % 32

\* the loop of compute_random_point from a state of the generator: the
\* outcome of the call and the state the generator is left in
RECURSIVE compute_random_point_loop(_, _, _)
compute_random_point_next(C, state, attempt, outcome) ==
    IF outcome.error = "continue"
    THEN compute_random_point_loop(C, random_advance(state), attempt + 1)
    ELSE [outcome |-> outcome, state |-> random_advance(state)]

compute_random_point_loop(C, state, attempt) ==
    IF attempt = compute_random_point_max_attempts
    THEN [outcome |-> Raise("ValueError"), state |-> state]
    ELSE compute_random_point_next(C, state, attempt,
            compute_random_point_pass(C,
                random_randint(state, 1, Pow2(C.field.m) - 1)))

\* compute_random_point(seed) called in a state of the generator, which no
\* seed leaves alone
compute_random_point_unseeded(C, seed, state) ==
    compute_random_point_loop(C, state, 0)

\* compute_random_point(seed) called in a state of the generator: a seed
\* that is not None is handed to random.seed first. An Optional[int] is None
\* or the 1-tuple of the integer.
compute_random_point(C, seed, state) ==
    compute_random_point_loop(C, IF seed = None THEN state ELSE random_seed(seed[1]), 0)

compute_base_point_max_attempts == 100

\* the seed of the next pass of compute_base_point
compute_base_point_seed(seed) == IF seed = None THEN None ELSE <<seed[1] + 1>>

\* The loop of compute_base_point on the curve of the parameter set D, whose
\* table holds the multiples: the outcome, the state the generator is left
\* in, and nP, what multiply(n, P) returned for the point returned.
RECURSIVE compute_base_point_loop(_, _, _, _, _, _)
compute_base_point_nP(D, n, cofactor, seed, state, attempt, P, nP) ==
    IF nP.is_infinity
    THEN [outcome |-> Return(P), state |-> state, nP |-> Return(nP)]
    ELSE compute_base_point_loop(D, n, cofactor, compute_base_point_seed(seed),
                                 state, attempt + 1)

compute_base_point_P(D, n, cofactor, seed, state, attempt, P) ==
    IF P.is_infinity
    THEN compute_base_point_loop(D, n, cofactor, compute_base_point_seed(seed),
                                 state, attempt + 1)
    ELSE compute_base_point_nP(D, n, cofactor, seed, state, attempt, P,
                               scalar_multiply(D, n, P))

\* from what compute_random_point(seed) returned: its exception escapes
compute_base_point_Q(D, n, cofactor, seed, attempt, drawn) ==
    IF ~drawn.outcome.ok
    THEN [outcome |-> drawn.outcome, state |-> drawn.state, nP |-> NotCalled]
    ELSE compute_base_point_P(D, n, cofactor, seed, drawn.state, attempt,
            IF cofactor = 1 THEN drawn.outcome.value
            ELSE scalar_multiply(D, cofactor, drawn.outcome.value))

compute_base_point_loop(D, n, cofactor, seed, state, attempt) ==
    IF attempt = compute_base_point_max_attempts
    THEN [outcome |-> Raise("ValueError"), state |-> state, nP |-> NotCalled]
    ELSE compute_base_point_Q(D, n, cofactor, seed, attempt,
                              compute_random_point(D.curve, seed, state))

compute_base_point(D, n, cofactor, seed, state) ==
    compute_base_point_loop(D, n, cofactor, seed, state, 0)

\* the base point of get_dstu_curve_257(): compute_base_point(n, 1, 257)
get_dstu_curve_257_base_point(state) ==
    compute_base_point(get_dstu_curve_257, get_dstu_curve_257.n, 1, <<257>>, state)

\* from what compute_random_point(seed = 163) returned: the factory calls
\* neither multiply(n, P) nor any other test
get_dstu_curve_163_generated(drawn) ==
    [outcome |-> drawn.outcome, state |-> drawn.state, nP |-> NotCalled]

\* the base point of get_dstu_curve_163(use_official_base_point): the given
\* point, or compute_random_point(seed = 163)
get_dstu_curve_163_base_point(use_official_base_point, state) ==
    IF use_official_base_point
    THEN [outcome |-> Return(get_dstu_curve_163.P), state |-> state, nP |-> NotCalled]
    ELSE get_dstu_curve_163_generated(
            compute_random_point(get_dstu_curve_163.curve, <<163>>, state))

\* the seeds handed to the generation operations
GenerationSeeds == {None, <<163>>, <<257>>}

\* the cofactors handed to compute_base_point
Cofactors == {1, 2, 4}

InitGenerate ==
    /\ GenIdle
    /\ attempts = 0
    /\ called = [nP |-> NotCalled]
    /\ random_state \in RandomStates
    /\ op = "init"
    /\ args = [state |-> random_state]
    /\ ret = NotCalled

\* another user of the module random draws from the shared generator
AmbientDraw ==
    /\ op' = "randint"
    /\ args' = [state |-> random_state]
    /\ ret' = Return(random_randint(random_state, 1, 31))
    /\ random_state' = random_advance(random_state)
    /\ called' = [nP |-> NotCalled]
    /\ UNCHANGED <<attempts, genvars>>

\* the end of a generation operation that returned generated
Generated(generated) ==
    /\ ret' = generated.outcome
    /\ random_state' = generated.state
    /\ called' = [nP |-> generated.nP]

ComputeRandomPoint ==
    /\ op' = "compute_random_point"
    /\ \E i \in {1, 2}, seed \in GenerationSeeds :
          /\ args' = [i |-> i, seed |-> seed, state |-> random_state]
          /\ Generated(get_dstu_curve_163_generated(
                compute_random_point(DSTU_INSTANCES[i].curve, seed, random_state)))
    /\ UNCHANGED <<attempts, genvars>>

ComputeBasePoint ==
    /\ op' = "compute_base_point"
    /\ \E i \in {1, 2}, seed \in GenerationSeeds, cofactor \in Cofactors :
          /\ args' = [i |-> i, seed |-> seed, cofactor |-> cofactor,
                      state |-> random_state]
          /\ Generated(compute_base_point(DSTU_INSTANCES[i], DSTU_INSTANCES[i].n,
                                          cofactor, seed, random_state))
    /\ UNCHANGED <<attempts, genvars>>

GetDstuCurve163 ==
    /\ op' = "get_dstu_curve_163"
    /\ \E use_official_base_point \in BOOLEAN :
          /\ args' = [use_official_base_point |-> use_official_base_point,
                      state |-> random_state]
          /\ Generated(get_dstu_curve_163_base_point(use_official_base_point,
                                                     random_state))
    /\ UNCHANGED <<attempts, genvars>>

GetDstuCurve257 ==
    /\ op' = "get_dstu_curve_257"
    /\ args' = [state |-> random_state]
    /\ Generated(get_dstu_curve_257_base_point(random_state))
    /\ UNCHANGED <<attempts, genvars>>

NextGenerate ==
    \/ AmbientDraw
    \/ ComputeRandomPoint
    \/ ComputeBasePoint
    \/ GetDstuCurve163
    \/ GetDstuCurve257

SpecGenerate == InitGenerate /\ [][NextGenerate]_vars

(***************************************************************************)
(* field.py: GF2mField.__init__; curve.py: EllipticCurve.__init__          *)
(***************************************************************************)

\* GF2mField(m, polynomial): the degree is tested for its range and parity,
\* the polynomial for its length only
GF2mField_init(m, polynomial) ==
    IF m < 163 \/ m > 509 THEN Raise("ValueError")
    ELSE IF m % 2 = 0 THEN Raise("ValueError")
    ELSE IF Len(polynomial) = 2
         THEN Return([m |-> m, polynomial |-> polynomial, basis_type |-> "trinomial",
                      k |-> polynomial[2], j |-> 0, l |-> 0])
    ELSE IF Len(polynomial) = 4
         THEN Return([m |-> m, polynomial |-> polynomial, basis_type |-> "pentanomial",
                      k |-> polynomial[2], j |-> polynomial[3], l |-> polynomial[4]])
    ELSE Raise("ValueError")

\* EllipticCurve(field, A, B)
EllipticCurve_init(field, A, B) ==
    IF A \notin {0, 1} THEN Raise("ValueError")
    ELSE IF is_zero(field, B) THEN Raise("ValueError")
    ELSE Return([field |-> field, A |-> A, B |-> B])

\* the degrees handed to GF2mField: around both ends of the range
Degrees == (161..165) \cup (507..511)

\* the exponents below the leading one in the polynomials handed to GF2mField
PolynomialExponents(m) == {0, 1, 2, 3, m}

\* the polynomials handed to GF2mField(m, .): the empty tuple and the tuples
\* of length 1 to 5 with leading degree m or m + 1
Polynomials(m) ==
    {<<>>} \cup
    UNION {{<<lead>> \o Array(t) : lead \in {m, m + 1},
                                   t \in [1..c -> PolynomialExponents(m)]} : c \in 0..4}

FieldInitArgs == UNION {{[m |-> m, polynomial |-> p] : p \in Polynomials(m)} : m \in Degrees}

\* the coefficients handed to EllipticCurve over a configured field
CurveInitArgs ==
    UNION {{[i |-> i, A |-> A, B |-> B] : A \in -1..2, B \in Elements(DSTU_FIELDS[i])} :
           i \in DOMAIN DSTU_FIELDS}

InitConstruct ==
    /\ FlowIdle
    /\ \/ op = "field" /\ args \in FieldInitArgs
       \/ op = "curve" /\ args \in CurveInitArgs
    /\ ret = NotCalled

ConstructField ==
    /\ op = "field"
    /\ op' = "GF2mField"
    /\ ret' = GF2mField_init(args.m, args.polynomial)
    /\ UNCHANGED <<args, flowvars>>

ConstructCurve ==
    /\ op = "curve"
    /\ op' = "EllipticCurve"
    /\ ret' = EllipticCurve_init(DSTU_FIELDS[args.i], args.A, args.B)
    /\ UNCHANGED <<args, flowvars>>

NextConstruct == ConstructField \/ ConstructCurve

SpecConstruct == InitConstruct /\ [][NextConstruct]_vars

(***************************************************************************)
(* MLDSA44.verify on every message, signature and key, with the backend    *)
(* failing at the creation of the verifier or in the verification          *)
(***************************************************************************)

\* the ML-DSA key pairs of the seeds
MldsaKeyPairs == {oqs_generate_keypair(seed) : seed \in Seeds}

\* the signatures of the messages under the keys, and two byte strings that
\* are no signature
MldsaSignatures ==
    {oqs_sign(msg, kp.private_key) : msg \in Messages, kp \in MldsaKeyPairs}
        \cup {<<>>, <<0, 0>>}

MldsaArgs ==
    [data : Messages, signature : MldsaSignatures,
     public_key : {kp.public_key : kp \in MldsaKeyPairs} \cup {<<>>, <<0>>},
     create_fault : BOOLEAN, fault : BOOLEAN]

InitMldsa ==
    /\ FlowIdle
    /\ op = "init"
    /\ args \in MldsaArgs
    /\ ret = NotCalled

MldsaVerify ==
    /\ op = "init"
    /\ op' = "MLDSA44.verify"
    /\ ret' = MLDSA44_verify_created(oqs_Signature(args.create_fault), args.data,
                                     args.signature, args.public_key, args.fault)
    /\ UNCHANGED <<args, flowvars>>

NextMldsa == MldsaVerify

SpecMldsa == InitMldsa /\ [][NextMldsa]_vars

(***************************************************************************)
(* The arithmetic of the field on every pair of elements                   *)
(***************************************************************************)

\* the exponents handed to power in a field
PowerExponents(F) == {0, 1, 2, Pow2(F.m) - 2, Pow2(F.m) - 1}

ArithArgs ==
    UNION {[f : {f}, a : Elements(DSTU_FIELDS[f]), b : Elements(DSTU_FIELDS[f]), n : {0}] :
           f \in DOMAIN DSTU_FIELDS}

InitArith ==
    /\ FlowIdle
    /\ op = "init"
    /\ args \in ArithArgs
    /\ ret = NotCalled

Multiply ==
    /\ op = "init"
    /\ op' = "multiply"
    /\ ret' = Return(multiply(DSTU_FIELDS[args.f], args.a, args.b))
    /\ UNCHANGED <<args, flowvars>>

Square ==
    /\ op = "init"
    /\ op' = "square"
    /\ ret' = Return(square(DSTU_FIELDS[args.f], args.a))
    /\ UNCHANGED <<args, flowvars>>

Power ==
    /\ op = "init"
    /\ op' = "power"
    /\ \E n \in PowerExponents(DSTU_FIELDS[args.f]) :
          /\ args' = [args EXCEPT !.n = n]
          /\ ret' = Return(power(DSTU_FIELDS[args.f], args.a, n))
    /\ UNCHANGED flowvars

InverseElement ==
    /\ op = "init"
    /\ op' = "inverse"
    /\ ret' = Return(inverse(DSTU_FIELDS[args.f], args.a))
    /\ UNCHANGED <<args, flowvars>>

\* solve_quadratic(u, w) with u = a and w = b
SolveQuadratic ==
    /\ op = "init"
    /\ op' = "solve_quadratic"
    /\ ret' = Return(solve_quadratic(DSTU_FIELDS[args.f], args.a, args.b))
    /\ UNCHANGED <<args, flowvars>>

NextArith == Multiply \/ Square \/ Power \/ InverseElement \/ SolveQuadratic

SpecArith == InitArith /\ [][NextArith]_vars

(***************************************************************************)
(* The group operations, on every pair of points of the two curves and on  *)
(* every point with every scalar                                           *)
(***************************************************************************)

\* every pair of points with the scalars 0, and every point with every scalar
GroupArgs ==
    UNION {[i : {i}, P : CurvePoints(DSTU_INSTANCES[i]),
            Q : CurvePoints(DSTU_INSTANCES[i]), k : {0}]
           \cup [i : {i}, P : CurvePoints(DSTU_INSTANCES[i]), Q : {PointO},
                 k : 0..MaxScalar] :
           i \in DOMAIN DSTU_INSTANCES}

InitGroup ==
    /\ FlowIdle
    /\ op = "init"
    /\ args \in GroupArgs
    /\ ret = NotCalled

AddPoints ==
    /\ op = "init"
    /\ op' = "add"
    /\ ret' = Return(curve_add(DSTU_INSTANCES[args.i].curve, args.P, args.Q))
    /\ UNCHANGED <<args, flowvars>>

DoublePoint ==
    /\ op = "init"
    /\ op' = "double"
    /\ ret' = Return(curve_double(DSTU_INSTANCES[args.i].curve, args.P))
    /\ UNCHANGED <<args, flowvars>>

MultiplyPoint ==
    /\ op = "init"
    /\ op' = "multiply"
    /\ ret' = Return(curve_multiply(DSTU_INSTANCES[args.i].curve, args.k, args.P))
    /\ UNCHANGED <<args, flowvars>>

NextGroup == AddPoints \/ DoublePoint \/ MultiplyPoint

SpecGroup == InitGroup /\ [][NextGroup]_vars

(***************************************************************************)
(* decompress_point on every encoded element of the two fields             *)
(***************************************************************************)

DecompressArgs ==
    UNION {[i : {i}, c : Elements(DSTU_INSTANCES[i].curve.field)] :
           i \in DOMAIN DSTU_INSTANCES}

InitDecompress ==
    /\ FlowIdle
    /\ op = "init"
    /\ args \in DecompressArgs
    /\ ret = NotCalled

DecompressElement ==
    /\ op = "init"
    /\ op' = "decompress_point"
    /\ ret' = decompress_point(DSTU_INSTANCES[args.i].curve, args.c)
    /\ UNCHANGED <<args, flowvars>>

NextDecompress == DecompressElement

SpecDecompress == InitDecompress /\ [][NextDecompress]_vars

(***************************************************************************)
(* export_keypair_json on key pairs that differ in every field             *)
(***************************************************************************)

KeyIds == {"hybrid-20250101000000", "signing-key"}

\* HybridKeyPair objects: export_keypair_json takes any
ExportKeyPairs ==
    [key_id : KeyIds,
     created_at : Timestamps,
     dstu_private_key : {1, 10, 255},
     dstu_public_key_bytes : {<<0, 7>>, <<2, 31>>},
     mldsa_private_key : {<<21>>, <<22, 0>>},
     mldsa_public_key : {<<11>>, <<12>>}]

InitExport ==
    /\ FlowIdle
    /\ op = "init"
    /\ args \in [keypair : ExportKeyPairs, include_private : BOOLEAN]
    /\ ret = NotCalled

ExportKeypairJson ==
    /\ op = "init"
    /\ op' = "export_keypair_json"
    /\ ret' = Return(export_keypair_json(args.keypair, args.include_private))
    /\ UNCHANGED <<args, flowvars>>

NextExport == ExportKeypairJson

SpecExport == InitExport /\ [][NextExport]_vars

(***************************************************************************)
(* Properties                                                              *)
(***************************************************************************)

\* the component call returned true
ReturnedTrue(outcome) == outcome.ok /\ outcome.value

HybridVerified == scheme = "hybrid" /\ pc = "verified"

EcdsaVerified == scheme = "ecdsa" /\ pc = "verified"

\* the verifier was handed the message that was signed, the signature and
\* the keys as they were made, and the backend did not fail
FreshVerify == args.tamper = "none" /\ args.data = data /\ ~args.fault

\* C1: in both hybrid variants verify reports valid exactly when the
\* classical verification returned true and the ML-DSA verification returned
\* true; in the DSTU variant valid = (dstu_valid and mldsa_valid).
C1_ValidIffBothValid ==
    /\ HybridVerified =>
          /\ results.valid = (ReturnedTrue(called.classical) /\ ReturnedTrue(called.mldsa))
          /\ results.valid = (results.dstu_valid /\ results.mldsa_valid)
    /\ EcdsaVerified =>
          /\ ret.ok
          /\ ret.value = (ReturnedTrue(called.classical) /\ ReturnedTrue(called.mldsa))

\* C1 happens: a hybrid verification in which DSTU 4145 accepted, ML-DSA
\* refused, and the result is invalid.
C1_Witness ==
    /\ HybridVerified
    /\ results.dstu_valid
    /\ ~results.mldsa_valid
    /\ ~results.valid

\* C2 as stated: hybrid verify returns; an exception of the DSTU part or of
\* the ML-DSA verification leaves the flag of that part false and appends
\* one entry to errors, and the other part is still evaluated.
C2_EveryExceptionRecorded ==
    HybridVerified =>
        /\ ret.ok
        /\ ~called.classical.ok => ~results.dstu_valid
        /\ args.fault => ~results.mldsa_valid
        /\ Len(results.errors) = (IF ~called.classical.ok THEN 1 ELSE 0)
                                 + (IF args.fault THEN 1 ELSE 0)
        /\ called.classical.error # "not called"
        /\ called.mldsa.error # "not called"

\* C2 amended: hybrid verify returns; an exception of import_public_key or of
\* DSTU4145.verify leaves dstu_valid false and is the one entry of errors; an
\* exception of the ML-DSA backend leaves mldsa_valid false and adds no
\* entry, MLDSA44.verify having returned False for it; the other part is
\* evaluated and reported in either case.
C2_DstuExceptionRecorded ==
    HybridVerified =>
        /\ ret.ok
        /\ called.classical.error # "not called"
        /\ called.mldsa.ok
        /\ results.mldsa_valid = called.mldsa.value
        /\ args.fault => ~results.mldsa_valid
        /\ IF called.classical.ok
           THEN /\ results.dstu_valid = called.classical.value
                /\ results.errors = <<>>
           ELSE /\ ~results.dstu_valid
                /\ results.errors = <<<<"DSTU", called.classical.error>>>>

\* C2 happens: import_public_key raised, the one entry was appended, and
\* ML-DSA was still verified and accepted.
C2_Witness ==
    /\ HybridVerified
    /\ ~called.classical.ok
    /\ Len(results.errors) = 1
    /\ results.mldsa_valid
    /\ ~results.valid

\* C3: whenever sign has returned (r, s) for a message and a private key d,
\* verify of the message, (r, s) and Q = d P returns true, and the hybrid
\* verification of the fresh hybrid signature under the same key pair is
\* valid.
C3_SignatureCorrectness ==
    /\ (scheme = "dstu163" /\ pc = "signed") =>
          LET out == verify(create_dstu4145_163, data, signature.dstu_signature,
                            scalar_multiply(create_dstu4145_163, keypair.private_key,
                                            create_dstu4145_163.P))
          IN  out.ok /\ out.value
    /\ (scheme = "hybrid" /\ pc = "signed") =>
          /\ LET out == verify(hybrid_dstu, data, signature.dstu_signature,
                               scalar_multiply(hybrid_dstu, keypair.dstu_private_key,
                                               hybrid_dstu.P))
             IN  out.ok /\ out.value
          /\ hybrid_verify(data, signature, keypair, FALSE).valid
    /\ (scheme = "dstu163" /\ pc = "verified" /\ FreshVerify) => ret.ok /\ ret.value
    /\ (HybridVerified /\ FreshVerify) => results.valid

\* C3 happens: a fresh hybrid signature was verified and found valid.
C3_Witness ==
    /\ HybridVerified
    /\ FreshVerify
    /\ results.dstu_valid
    /\ results.valid

\* C4: every pair (r, s) sign returned has 0 < r < n and 0 < s < n.
C4_SignatureInRange ==
    (scheme \in {"dstu163", "hybrid"} /\ pc \in {"signed", "verified"}) =>
        /\ 0 < signature.dstu_signature[1]
        /\ signature.dstu_signature[1] < Dstu(scheme).n
        /\ 0 < signature.dstu_signature[2]
        /\ signature.dstu_signature[2] < Dstu(scheme).n

\* C4 happens: sign returned a pair whose s is the largest admissible one,
\* after draws that were rejected.
C4_Witness ==
    /\ scheme = "dstu163"
    /\ pc = "signed"
    /\ signature.dstu_signature[2] = create_dstu4145_163.n - 1

\* C5: verify returns true or false for every message, integers r, s and
\* point Q, and false whenever r or s is outside (0, n), Q is the point at
\* infinity, or Q does not satisfy the curve equation.
C5_VerifyTotal ==
    op = "verify" =>
        /\ ret.ok
        /\ ret.value \in BOOLEAN
        /\ (\/ ~(0 < args.r /\ args.r < DSTU_INSTANCES[args.i].n)
            \/ ~(0 < args.s /\ args.s < DSTU_INSTANCES[args.i].n)
            \/ args.Q.is_infinity
            \/ ~is_on_curve(DSTU_INSTANCES[args.i].curve, args.Q))
           => ret.value = FALSE

\* C5 happens: r and s were in range, Q the point at infinity, and verify
\* returned false.
C5_Witness ==
    /\ op = "verify"
    /\ 0 < args.r /\ args.r < DSTU_INSTANCES[args.i].n
    /\ 0 < args.s /\ args.s < DSTU_INSTANCES[args.i].n
    /\ args.Q.is_infinity
    /\ ret.ok
    /\ ret.value = FALSE

\* a key pair and the messages the re-imported signatures are verified with
C6_KeyPair ==
    HybridKeyPair(3, export_public_key(hybrid_dstu,
                                       scalar_multiply(hybrid_dstu, 3, hybrid_dstu.P)).value,
                  oqs_generate_keypair(1).private_key, oqs_generate_keypair(1).public_key)

C6_EcdsaVerify(msg, sig) ==
    ecdsa_hybrid_result(
        ECDSA_verify(msg, sig.ecdsa_signature, ecdsa_generate_keypair(1).public_key),
        ecdsa_variant_MLDSA44_verify(msg, sig.mldsa_signature,
                                     oqs_generate_keypair(1).public_key, FALSE))

\* C6: the signature imported from the exported envelope has the same
\* classical signature, ML-DSA signature, algorithm, timestamp and digest
\* as the one exported, in both variants, and verifies as it does.
C6_EnvelopeRoundTrip ==
    /\ op = "import_signature_json" =>
          /\ ret.ok
          /\ ret.value.dstu_signature = args.sig.dstu_signature
          /\ ret.value.mldsa_signature = args.sig.mldsa_signature
          /\ ret.value.algorithm = args.sig.algorithm
          /\ ret.value.timestamp = args.sig.timestamp
          /\ ret.value.data_hash_kupyna = args.sig.data_hash_kupyna
          /\ \A msg \in Messages :
                hybrid_verify(msg, ret.value, C6_KeyPair, FALSE)
                = hybrid_verify(msg, args.sig, C6_KeyPair, FALSE)
    /\ op = "ecdsa_import_signature" =>
          /\ ret.ok
          /\ ret.value.ecdsa_signature = args.sig.ecdsa_signature
          /\ ret.value.mldsa_signature = args.sig.mldsa_signature
          /\ ret.value.algorithm = args.sig.algorithm
          /\ ret.value.timestamp = args.sig.timestamp
          /\ ret.value.data_hash_sha256 = args.sig.data_hash_sha256
          /\ \A msg \in Messages :
                C6_EcdsaVerify(msg, ret.value) = C6_EcdsaVerify(msg, args.sig)

\* C6 happens: an envelope with a negative r, a three-digit s and an ML-DSA
\* signature of two bytes (one "=" of padding) was exported and imported.
C6_Witness ==
    /\ op = "import_signature_json"
    /\ ret.ok
    /\ args.sig.dstu_signature = <<-1, 4095>>
    /\ args.sig.mldsa_signature = <<255, 0>>
    /\ ret.value.mldsa_signature = <<255, 0>>

\* C7 as stated: inverse of the zero element ends in an error, not in a
\* returned value.
C7_InverseOfZeroFails ==
    (op = "inverse" /\ is_zero(DSTU_FIELDS[args.f], args.a)) => ~ret.ok

\* C8 as stated: for every byte string b of the canonical length
\* ceil(m / 8), element_to_bytes(element_from_bytes(b)) = b.
C8_BytesRoundTrip ==
    (op = "element_to_bytes" /\ Len(args.data) = (DSTU_FIELDS[args.f].m + 7) \div 8)
        => ret.value = args.data

\* C9 as stated: for every point of the curve other than the point at
\* infinity, decompress_point(compress_point(P)) = P.
C9_CompressRoundTrip ==
    (op = "decompress_point" /\ ~args.P.is_infinity) =>
        /\ ret.ok
        /\ ret.value.x = args.P.x
        /\ ret.value.y = args.P.y

\* bytes of each of r and s for the order n
C10_ByteLen(n) == (bit_length(n) + 7) \div 8

C10_InRange == 0 <= args.sig.dstu_signature[1] /\ args.sig.dstu_signature[1] < args.n
               /\ 0 <= args.sig.dstu_signature[2] /\ args.sig.dstu_signature[2] < args.n

\* C10: for 0 <= r, s < n export_signature returns 2 * ceil(bitlen(n) / 8)
\* bytes, r then s, each big-endian and zero-padded, and import_signature of
\* them returns (r, s); import_signature of a byte string of any other
\* length fails.
C10_SignatureBytesRoundTrip ==
    /\ (op = "export_signature" /\ C10_InRange) =>
          /\ ret.ok
          /\ Len(ret.value) = 2 * C10_ByteLen(args.n)
          /\ from_bytes(SubSeq(ret.value, 1, C10_ByteLen(args.n)))
             = args.sig.dstu_signature[1]
          /\ from_bytes(SubSeq(ret.value, C10_ByteLen(args.n) + 1, 2 * C10_ByteLen(args.n)))
             = args.sig.dstu_signature[2]
    /\ (op = "import_signature" /\ args.kind = "binary" /\ C10_InRange) =>
          /\ ret.ok
          /\ ret.value = args.sig.dstu_signature
    /\ (op = "import_signature" /\ args.kind = "raw"
        /\ Len(args.raw) # 2 * C10_ByteLen(args.n)) => ~ret.ok

\* C10 happens: for an order of two bytes, a pair whose r takes both bytes
\* was exported to four bytes and imported again.
C10_Witness ==
    /\ op = "import_signature"
    /\ args.kind = "binary"
    /\ args.n = 257
    /\ args.sig.dstu_signature = <<256, 255>>
    /\ ret.ok
    /\ ret.value = <<256, 255>>

\* C11 as stated: an exported signature has 64 bytes for M-257, and 46 bytes
\* for M-163, bitlen(n) being 181 for the M-163 order.
C11_SizesAsStated ==
    /\ (op = "export_signature" /\ args.key = 257) => ret.ok /\ Len(ret.value) = 64
    /\ (op = "export_signature" /\ args.key = 163) =>
          /\ ret.ok
          /\ Len(ret.value) = 46
          /\ wide_bit_length(n_163) = 181

\* C11 amended: an exported signature has 64 bytes (32 + 32) for M-257,
\* bitlen(n) being 256, and 42 bytes (21 + 21) for M-163, bitlen(n) being
\* 163 for the M-163 order.
C11_ExportedSizes ==
    /\ wide_bit_length(n_163) = 163
    /\ wide_bit_length(n_257) = 256
    /\ (op = "export_signature" /\ args.key = 257) =>
          /\ ret.ok
          /\ Len(ret.value) = 64
          /\ SubSeq(ret.value, 1, 32) = Zeros(32 - Len(args.sig[1])) \o args.sig[1]
          /\ SubSeq(ret.value, 33, 64) = Zeros(32 - Len(args.sig[2])) \o args.sig[2]
    /\ (op = "export_signature" /\ args.key = 163) =>
          /\ ret.ok
          /\ Len(ret.value) = 42
          /\ SubSeq(ret.value, 1, 21) = Zeros(21 - Len(args.sig[1])) \o args.sig[1]
          /\ SubSeq(ret.value, 22, 42) = Zeros(21 - Len(args.sig[2])) \o args.sig[2]

\* C11 happens: the pair (n - 1, 1) of M-163 was exported to 42 bytes.
C11_Witness ==
    /\ op = "export_signature"
    /\ args.key = 163
    /\ args.sig = <<WidePred(n_163), <<1>>>>
    /\ ret.ok
    /\ Len(ret.value) = 42

\* bytes of one coordinate of the instance
C12_ByteLen(i) == (DSTU_INSTANCES[i].field.m + 7) \div 8

C13_OutOfRange(i, b) == from_bytes(b) >= Pow2(DSTU_INSTANCES[i].field.m)

\* C13 as stated: import_public_key fails on a byte string of the wrong
\* length, on coordinates that do not satisfy the curve equation and on a
\* coordinate with a bit set at a position >= m; every byte string it
\* accepts is what export_public_key gives back for the imported point.
C13_MalformedKeyRejected ==
    /\ (op = "import_public_key_bytes" /\ Len(args.raw) # 2 * C12_ByteLen(args.i)) => ~ret.ok
    /\ (op = "import_public_key_bytes" /\ Len(args.raw) = 2 * C12_ByteLen(args.i)) =>
          /\ ~is_on_curve(DSTU_INSTANCES[args.i].curve,
                          Point(element_from_int(DSTU_INSTANCES[args.i].field,
                                                 from_bytes(SubSeq(args.raw, 1, C12_ByteLen(args.i)))),
                                element_from_int(DSTU_INSTANCES[args.i].field,
                                                 from_bytes(SubSeq(args.raw, C12_ByteLen(args.i) + 1,
                                                                   2 * C12_ByteLen(args.i))))))
             => ~ret.ok
          /\ (\/ C13_OutOfRange(args.i, SubSeq(args.raw, 1, C12_ByteLen(args.i)))
              \/ C13_OutOfRange(args.i, SubSeq(args.raw, C12_ByteLen(args.i) + 1,
                                               2 * C12_ByteLen(args.i))))
             => ~ret.ok
    /\ op = "export_imported_key" => ret.ok /\ ret.value = args.raw

\* C14 as stated: on every instance that can be constructed,
\* generate_keypair returns (d, Q) with 0 < d < n and Q = d P, and Q is not
\* the point at infinity.
C14_KeygenNeverInfinity ==
    op = "generate_keypair" =>
        /\ ret.ok
        /\ 0 < ret.value.private_key
        /\ ret.value.private_key < DSTU_INSTANCES[args.i].n
        /\ Point_eq(ret.value.public_key,
                    curve_multiply(DSTU_INSTANCES[args.i].curve, ret.value.private_key,
                                   args.base_point))
        /\ ~ret.value.public_key.is_infinity

\* C15 as stated: every loop that redraws randomness is capped and ends in
\* an error at its cap: no loop of generate_keypair or of sign is still
\* running after 1000 draws (the cap of sign, the largest the program has)
\* were rejected.
C15_RetryLoopsCapped ==
    /\ (scheme \in {"dstu163", "hybrid"} /\ pc = "init") => attempts < max_attempts
    /\ pc = "signing" => attempts < max_attempts

\* C16: compute_random_point has exactly two outcomes: it returns a point
\* that is not the point at infinity, with x # 0, Tr(x) = A, on the curve, or
\* it fails with the generation error after 1000 unsuccessful attempts; no
\* other error escapes.
C16_TwoOutcomes ==
    (op = "compute_random_point" /\ ret.error # "not called") =>
        \/ /\ ret.ok
           /\ ~ret.value.is_infinity
           /\ ~is_zero(DSTU_INSTANCES[args.i].field, ret.value.x)
           /\ trace(DSTU_INSTANCES[args.i].field, ret.value.x) = DSTU_INSTANCES[args.i].curve.A
           /\ is_on_curve(DSTU_INSTANCES[args.i].curve, ret.value)
        \/ /\ ret.error = "ValueError"
           /\ attempts = compute_random_point_max_attempts

\* the operation returned a generated base point
C17_GeneratedBasePoint ==
    /\ ret.ok
    /\ \/ op \in {"compute_base_point", "get_dstu_curve_257"}
       \/ op = "get_dstu_curve_163" /\ ~args.use_official_base_point

\* C17: every generated base point has passed both tests, P # O and
\* n P = O: compute_base_point returns only such a point, and the factories
\* get_dstu_curve_257 and get_dstu_curve_163 with generation enabled hand out
\* only points that passed them.
C17_BasePointTested ==
    C17_GeneratedBasePoint =>
        /\ ~ret.value.is_infinity
        /\ called.nP.ok
        /\ called.nP.value.is_infinity

\* the operation was one of the generation operations of curve.py
C18_GenerationOperation ==
    op \in {"compute_random_point", "compute_base_point",
            "get_dstu_curve_163", "get_dstu_curve_257"}

\* C18: random-point and base-point generation leave the ambient
\* random-generator state unchanged: after the operation the generator is in
\* the state it was called in.
C18_GeneratorStateUnchanged ==
    C18_GenerationOperation => random_state = args.state

\* C19: get_dstu_curve_257 is reproducible: every invocation returns the
\* same base point, the one of the parameter set, whatever was drawn from
\* the generator before it or between two invocations.
C19_Reproducible ==
    op = "get_dstu_curve_257" =>
        /\ ret.ok
        /\ ret.value = get_dstu_curve_257.P

\* get_dstu_curve_257 returned after it was called with the generator in a
\* state other than the one its seed gives
C19_Witness ==
    /\ op = "get_dstu_curve_257"
    /\ ret.ok
    /\ args.state # random_seed(257)

\* the degrees of a reduction polynomial are consistent: a 2- or 4-tuple
\* with leading degree m and exponents m > k > 0 or m > k > j > l > 0
C20_ConsistentPolynomial(m, p) ==
    /\ Len(p) \in {2, 4}
    /\ p[1] = m
    /\ \A i \in 1..(Len(p) - 1) : p[i] > p[i + 1]
    /\ p[Len(p)] > 0

\* C20: construction rejects every invalid domain input and yields no
\* instance: a field with m < 163, m > 509 or m even, a reduction polynomial
\* that is not a 2- or 4-tuple, whose leading degree differs from m or whose
\* exponents do not satisfy m > k > j > l > 0, a curve with A not in {0, 1}
\* or with B = 0.
C20_InvalidInputRejected ==
    /\ (op = "GF2mField" /\ ret.ok) =>
          /\ args.m >= 163
          /\ args.m <= 509
          /\ args.m % 2 = 1
          /\ C20_ConsistentPolynomial(args.m, args.polynomial)
    /\ (op = "EllipticCurve" /\ ret.ok) =>
          /\ args.A \in {0, 1}
          /\ ~is_zero(DSTU_FIELDS[args.i], args.B)

\* the backend raises, at the creation of the verifier or in the verification
C21_BackendRaises == args.create_fault \/ args.fault

\* C21: ML-DSA verify raises nothing; it returns false whenever the backend
\* raises an exception, during the creation of the verifier or during the
\* verification, and the backend's boolean otherwise.
C21_VerifyReturnsFalseOnException ==
    op = "MLDSA44.verify" =>
        /\ ret.ok
        /\ C21_BackendRaises => ret.value = FALSE
        /\ ~C21_BackendRaises =>
              ret.value = oqs_verify(args.data, args.signature, args.public_key, FALSE).value

\* verify returned while the creation of the verifier failed, for a
\* signature the backend would have accepted
C21_Witness ==
    /\ op = "MLDSA44.verify"
    /\ args.create_fault
    /\ ~args.fault
    /\ oqs_verify(args.data, args.signature, args.public_key, FALSE).value
    /\ ret.ok

\* the coefficient of t^d in the school-book product of the polynomials a
\* and b
C22_ProductCoefficient(a, b, d) ==
    Cardinality({i \in 1..Len(a) :
        /\ d - i + 2 \in 1..Len(b)
        /\ a[i] = 1
        /\ b[d - i + 2] = 1}) % 2

\* the polynomial p with t^d replaced by t^(d - m) times the lower terms of
\* the defining polynomial
C22_Fold(F, p, d) ==
    [e \in 1..Len(p) |->
        IF e = d + 1 THEN 0
        ELSE IF (e - 1) - (d - F.m) \in ReductionTaps(F) THEN 1 - p[e]
        ELSE p[e]]

\* p modulo the defining polynomial, its terms folded from degree d down
RECURSIVE C22_Modulo(_, _, _)
C22_Modulo(F, p, d) ==
    IF d < F.m THEN Array([e \in 1..F.m |-> p[e]])
    ELSE C22_Modulo(F, IF p[d + 1] = 1 THEN C22_Fold(F, p, d) ELSE p, d - 1)

\* school-book multiplication followed by the reduction
C22_Schoolbook(F, a, b) ==
    C22_Modulo(F, [e \in 1..(2 * F.m - 1) |-> C22_ProductCoefficient(a, b, e - 1)],
               2 * F.m - 2)

\* C22: field multiplication equals school-book polynomial multiplication
\* followed by reduction modulo the defining polynomial, in the trinomial and
\* the pentanomial field; it is commutative, associative, distributes over
\* add and has identity 1, and square(a) = multiply(a, a).
C22_MultiplyIsSchoolbook ==
    /\ op = "multiply" =>
          /\ ret.value = C22_Schoolbook(DSTU_FIELDS[args.f], args.a, args.b)
          /\ ret.value = multiply(DSTU_FIELDS[args.f], args.b, args.a)
          /\ \A c \in Elements(DSTU_FIELDS[args.f]) :
                /\ multiply(DSTU_FIELDS[args.f], ret.value, c)
                   = multiply(DSTU_FIELDS[args.f], args.a,
                              multiply(DSTU_FIELDS[args.f], args.b, c))
                /\ multiply(DSTU_FIELDS[args.f], args.a, add(DSTU_FIELDS[args.f], args.b, c))
                   = add(DSTU_FIELDS[args.f], ret.value,
                         multiply(DSTU_FIELDS[args.f], args.a, c))
          /\ args.b = one(DSTU_FIELDS[args.f]) => ret.value = args.a
          /\ args.a = one(DSTU_FIELDS[args.f]) => ret.value = args.b
    /\ op = "square" =>
          /\ ret.value = multiply(DSTU_FIELDS[args.f], args.a, args.a)
          /\ ret.value = C22_Schoolbook(DSTU_FIELDS[args.f], args.a, args.a)

\* a product in the pentanomial field whose school-book product has degree
\* 2m - 2, so that the reduction acted
C22_Witness ==
    /\ op = "multiply"
    /\ DSTU_FIELDS[args.f].basis_type = "pentanomial"
    /\ args.a[DSTU_FIELDS[args.f].m] = 1
    /\ args.b[DSTU_FIELDS[args.f].m] = 1
    /\ args.a # args.b

\* C23: for every non-zero a, multiply(a, inverse(a)) = 1 and
\* power(a, 2^m - 1) = 1; power(a, 0) = 1 for every a including 0.
C23_InverseAndPower ==
    /\ (op = "inverse" /\ ~is_zero(DSTU_FIELDS[args.f], args.a)) =>
          multiply(DSTU_FIELDS[args.f], args.a, ret.value) = one(DSTU_FIELDS[args.f])
    /\ (op = "power" /\ args.n = 0) => ret.value = one(DSTU_FIELDS[args.f])
    /\ (op = "power" /\ args.n = Pow2(DSTU_FIELDS[args.f].m) - 1
            /\ ~is_zero(DSTU_FIELDS[args.f], args.a)) =>
          ret.value = one(DSTU_FIELDS[args.f])

\* the inverse of an element other than 0 and 1 was returned
C23_Witness ==
    /\ op = "inverse"
    /\ ~is_zero(DSTU_FIELDS[args.f], args.a)
    /\ args.a # one(DSTU_FIELDS[args.f])
    /\ ret.value # None

\* z^2 + u z + w = 0
C24_Solves(F, u, w, z) ==
    is_zero(F, add(F, add(F, square(F, z), multiply(F, u, z)), w))

\* the case u # 0 of the table, with v = w / u^2
C24_General(F, u, w, v, sol) ==
    /\ sol[1] = 0 <=> trace(F, v) # 0
    /\ sol[1] # 0 =>
          /\ sol[1] = 2
          /\ sol[2] = multiply(F, u, half_trace(F, v))
          /\ C24_Solves(F, u, w, sol[2])
          /\ C24_Solves(F, u, w, add(F, sol[2], u))

\* the case table of solve_quadratic(u, w) for the returned (count, z)
C24_CaseTable(F, u, w, sol) ==
    /\ (is_zero(F, u) /\ is_zero(F, w)) => sol = <<2, zero(F)>>
    /\ (is_zero(F, u) /\ ~is_zero(F, w)) => sol[1] = 1 /\ square(F, sol[2]) = w
    /\ ~is_zero(F, u) =>
          C24_General(F, u, w, multiply(F, w, inverse(F, square(F, u))), sol)
    /\ u = one(F) => (sol[1] = 2 <=> trace(F, w) = 0)

\* C24: solve_quadratic(u, w) follows the case table: (2, 0) when u = 0 and
\* w = 0; (1, z) with z^2 = w when u = 0 and w # 0; for u # 0 count 0
\* exactly when Tr(w / u^2) # 0, otherwise (2, z) with z = u HalfTrace(w / u^2)
\* solving z^2 + u z + w = 0, z + u being the other solution;
\* solve_quadratic(1, v) has count 2 iff Tr(v) = 0.
C24_SolveQuadraticTable ==
    op = "solve_quadratic" =>
        C24_CaseTable(DSTU_FIELDS[args.f], args.a, args.b, ret.value)

\* two solutions were returned for u other than 0 and 1 and w # 0
C24_Witness ==
    /\ op = "solve_quadratic"
    /\ ~is_zero(DSTU_FIELDS[args.f], args.a)
    /\ args.a # one(DSTU_FIELDS[args.f])
    /\ ~is_zero(DSTU_FIELDS[args.f], args.b)
    /\ ret.value[1] = 2

\* C25: closure of the group operations: for all points P, Q that are O or
\* satisfy the curve equation and every scalar k >= 0, add(P, Q), double(P)
\* and multiply(k, P) are each O or a point satisfying the curve equation.
C25_Closure ==
    op \in {"add", "double", "multiply"} =>
        /\ ~IsBadPoint(ret.value)
        /\ \/ ret.value = PointO
           \/ /\ ~ret.value.is_infinity
              /\ ret.value.x \in Elements(DSTU_INSTANCES[args.i].field)
              /\ ret.value.y \in Elements(DSTU_INSTANCES[args.i].field)
              /\ is_on_curve(DSTU_INSTANCES[args.i].curve, ret.value)

\* a double of a point on the curve with A = 1 that is not O
C25_Witness ==
    /\ op = "double"
    /\ DSTU_INSTANCES[args.i].curve.A = 1
    /\ ~args.P.is_infinity
    /\ ~ret.value.is_infinity

\* the opposite -(x, y) = (x, x + y) of a point, -O = O
C26_Opposite(C, P) ==
    IF P.is_infinity THEN PointO ELSE Point(P.x, add(C.field, P.x, P.y))

\* the points of the curve of a parameter set, as the table of multiples
\* lists them
C26_Points(i) == DOMAIN MultiplyPointTable[i][0]

\* C26: point addition obeys the group laws on all curve points: add is
\* commutative and associative, P + O = O + P = P, and P + (-P) = O where
\* -(x, y) = (x, x + y), including the self-inverse point with x = 0, whose
\* doubling is O.
C26_GroupLaws ==
    /\ op = "add" =>
          /\ ret.value = curve_add(DSTU_INSTANCES[args.i].curve, args.Q, args.P)
          /\ \A R \in C26_Points(args.i) :
                curve_add(DSTU_INSTANCES[args.i].curve, ret.value, R)
                = curve_add(DSTU_INSTANCES[args.i].curve, args.P,
                            curve_add(DSTU_INSTANCES[args.i].curve, args.Q, R))
          /\ args.Q.is_infinity => ret.value = args.P
          /\ args.P.is_infinity => ret.value = args.Q
          /\ args.Q = C26_Opposite(DSTU_INSTANCES[args.i].curve, args.P) =>
                ret.value.is_infinity
    /\ (op = "double" /\ ~args.P.is_infinity
            /\ is_zero(DSTU_INSTANCES[args.i].field, args.P.x)) =>
          ret.value.is_infinity

\* a point with x # 0 was added to its opposite
C26_Witness ==
    /\ op = "add"
    /\ ~args.P.is_infinity
    /\ ~is_zero(DSTU_INSTANCES[args.i].field, args.P.x)
    /\ args.Q = C26_Opposite(DSTU_INSTANCES[args.i].curve, args.P)
    /\ ret.value.is_infinity

\* the k-fold sum P + ... + P by repeated add
RECURSIVE C27_RepeatedAdd(_, _, _)
C27_RepeatedAdd(C, k, P) ==
    IF k = 0 THEN PointO ELSE curve_add(C, C27_RepeatedAdd(C, k - 1, P), P)

\* C27: scalar multiplication computes k P: multiply(k, P) = O when k = 0 or
\* P = O, multiply(1, P) = P, multiply(2, P) = add(P, P), and for every
\* k >= 0 the double-and-add result equals the k-fold sum by repeated add.
C27_ScalarMultiple ==
    op = "multiply" =>
        /\ (args.k = 0 \/ args.P.is_infinity) => ret.value.is_infinity
        /\ args.k = 1 => ret.value = args.P
        /\ args.k = 2 => ret.value = curve_add(DSTU_INSTANCES[args.i].curve, args.P, args.P)
        /\ ret.value = C27_RepeatedAdd(DSTU_INSTANCES[args.i].curve, args.k, args.P)

\* a multiple that is not O, by an odd scalar above the order of the group
C27_Witness ==
    /\ op = "multiply"
    /\ args.k = MaxScalar
    /\ ~args.P.is_infinity
    /\ ~ret.value.is_infinity

\* the point decompress_point returned is the one the encoded element c
\* stands for: (0, sqrt(B)) for c = 0, otherwise a point with Tr(x) = A and
\* Tr(y / x) = the lowest bit of c
C28_Decoded(C, c, P) ==
    /\ P # PointO
    /\ P.x \in Elements(C.field)
    /\ P.y \in Elements(C.field)
    /\ is_on_curve(C, P)
    /\ IF is_zero(C.field, c)
       THEN /\ P.x = zero(C.field)
            /\ square(C.field, P.y) = C.B
       ELSE /\ ~is_zero(C.field, P.x)
            /\ trace(C.field, P.x) = C.A
            /\ trace(C.field, multiply(C.field, P.y, inverse(C.field, P.x))) = c[1]

\* C28: decompress_point has exactly two outcomes for every encoded element
\* c: it returns a non-infinity point on the curve ((0, sqrt(B)) for c = 0,
\* otherwise a point with Tr(x) = A and Tr(y/x) = the lowest bit of c), or
\* it raises the decode error (ValueError); no other error escapes
C28_TwoOutcomes ==
    op = "decompress_point" =>
        IF ret.ok
        THEN C28_Decoded(DSTU_INSTANCES[args.i].curve, args.c, ret.value)
        ELSE ret.error = "ValueError"

\* C28: what holds of the code: the same, except for the element 1 on a
\* curve with A = 0, where multiply is given None and AttributeError escapes
C28_TwoOutcomesButOne ==
    op = "decompress_point" =>
        IF ret.ok
        THEN C28_Decoded(DSTU_INSTANCES[args.i].curve, args.c, ret.value)
        ELSE \/ ret.error = "ValueError"
             \/ /\ ret.error = "AttributeError"
                /\ DSTU_INSTANCES[args.i].curve.A = 0
                /\ args.c = one(DSTU_INSTANCES[args.i].curve.field)

\* what the draw e gives for the digest element h and the key d: the pair
\* (r, s) where e # 0, eP # O, r # 0 and s = (e - d r) mod n # 0, None
\* where the draw is rejected
C29_Draw(D, h, d, e) ==
    LET R == scalar_multiply(D, e, D.P)
        r == field_element_to_int(D, multiply(D.field, h, R.x))
        s == (e - d * r) % D.n
    IN  IF e # 0 /\ R # PointO /\ r # 0 /\ s # 0 THEN <<r, s>> ELSE None

\* a step of sign: the key outside (0, n) is refused with nothing drawn; the
\* loop is entered with a key inside (0, n) only
C29_Entered ==
    /\ (pc = "ready" /\ op' = "sign" /\ ~ret'.ok /\ ret'.error = "ValueError") =>
          /\ pc' = "ready"
          /\ attempts' = attempts
          /\ signature' = signature
    /\ (pc = "ready" /\ pc' = "signing") =>
          /\ 0 < PrivateKey(scheme, keypair)
          /\ PrivateKey(scheme, keypair) < Dstu(scheme).n
          /\ attempts' = 0
          /\ ret'.error = "not called"

\* an iteration of the loop of sign, the (attempts + 1)-th: an accepted draw
\* returns its (r, s), the draw being e = (s + d r) mod n; a rejected one is
\* counted, and the 1000th rejected one in a row ends in the exhaustion
\* error.  What a draw gives depends on the message and the key only, which
\* the loop leaves alone, and is compared when the loop is entered.
C29_Iteration(D, h, d) ==
    /\ attempts < max_attempts
    /\ attempts = 0 =>
          \A e \in 0..(D.n - 1) : sign_attempt(D, h, d, e) = C29_Draw(D, h, d, e)
    /\ IF pc' = "signed"
       THEN /\ ret'.ok
            /\ signature'.dstu_signature =
                  C29_Draw(D, h, d, (signature'.dstu_signature[2]
                                     + d * signature'.dstu_signature[1]) % D.n)
       ELSE IF attempts + 1 < max_attempts
            THEN /\ pc' = "signing"
                 /\ attempts' = attempts + 1
                 /\ ret' = ret
                 /\ data' = data
                 /\ keypair' = keypair
            ELSE /\ pc' = "ready"
                 /\ ~ret'.ok
                 /\ ret'.error = "RuntimeError"

\* C29: sign refuses a private key outside (0, n) with an error before it
\* draws anything; otherwise it draws e at most 1000 times, returns at the
\* first draw with e # 0, eP # O, r # 0 and s = (e - d r) mod n # 0, and
\* fails with the exhaustion error exactly when all 1000 draws are rejected
C29_SignRetryLoop ==
    [][/\ C29_Entered
       /\ pc = "signing" =>
             C29_Iteration(Dstu(scheme),
                           hash_to_field_element(Dstu(scheme), hash_data(data)),
                           PrivateKey(scheme, keypair))]_vars

\* the 1000th draw was rejected and sign ended in the exhaustion error
C29_Witness ==
    /\ scheme \in {"dstu163", "hybrid"}
    /\ pc = "ready"
    /\ op = "sign"
    /\ ~ret.ok
    /\ ret.error = "RuntimeError"

\* two key pairs with the same key_id, created_at and public keys
C30_SamePublicPart(kp1, kp2) ==
    /\ kp1.key_id = kp2.key_id
    /\ kp1.created_at = kp2.created_at
    /\ kp1.dstu_public_key_bytes = kp2.dstu_public_key_bytes
    /\ kp1.mldsa_public_key = kp2.mldsa_public_key

\* C30: the export of a key pair with include_private = false has no
\* private_keys entry and is the export of every key pair with the same
\* key_id, created_at and public keys, whatever the private keys are
C30_NoPrivateKeyMaterial ==
    (op = "export_keypair_json" /\ ~args.include_private) =>
        /\ ret.ok
        /\ "private_keys.dstu4145" \notin DOMAIN ret.value
        /\ "private_keys.mldsa44" \notin DOMAIN ret.value
        /\ \A other \in ExportKeyPairs :
              C30_SamePublicPart(other, args.keypair) =>
                  export_keypair_json(other, FALSE) = ret.value

\* a key pair was exported without its private keys, and another key pair
\* with the same public part has other private keys
C30_Witness ==
    /\ op = "export_keypair_json"
    /\ ~args.include_private
    /\ ret.ok
    /\ \E other \in ExportKeyPairs :
          /\ C30_SamePublicPart(other, args.keypair)
          /\ other.dstu_private_key # args.keypair.dstu_private_key
          /\ other.mldsa_private_key # args.keypair.mldsa_private_key

====
